---- MODULE Spec2Model ----
(***************************************************************************)
(* A model of MoZuku (mozuku-rs): the morphological tokenizer adapter, the *)
(* grammar rule engine, the Markdown prose extractor and the language      *)
(* server's document handlers.                                             *)
(*                                                                         *)
(* Text is a sequence of code points.  A code point is written as a short  *)
(* ASCII name: "ga" is the kana GA, "maru" the full stop U+3002, "LF" the  *)
(* line feed, "sp" the space, "tick" the backtick.  A Rust String is a Seq *)
(* of these names and chars().count() is Len.                              *)
(***************************************************************************)
EXTENDS Integers, Sequences, FiniteSets, TLC

VARIABLES
    text,           \* the text last handed to check or to a query of the analyzer
    tokenizer_ok,   \* whether lindera's tokenize returned Ok on that call
    tokens,         \* the Vec<TokenInfo> MorphologicalAnalyzer::tokenize returned
    diagnostics,    \* the Vec<Diagnostic> check returned
    called,         \* whether check (or the query) has been called
    position,       \* the Position get_hover_info was given
    hover,          \* the Option<String> get_hover_info returned
    semantic_tokens, \* what get_semantic_tokens returned
    pos_text,       \* the text whose lines char_offset_to_position was given
    pos_offset,     \* the char_offset it was given
    pos_result,     \* the (line, column) it returned, <<>> before any call
    md_content,     \* the content last handed to TextExtractor::extract
    md_tree,        \* the root node the parser returned for it
    md_result,      \* "idle" before the call, then "ok", "err" or "panic"
    md_spans,       \* the Vec<TextSpan> it returned
    config,         \* MozukuServer.config.checker, as loaded by new
    documents,      \* MozukuServer.documents: uri -> DocumentState
    tasks,          \* the handlers in flight, each with its position
    received,       \* how many notifications the server has received
    published,      \* the last publish_diagnostics call, <<>> before any
    newest,         \* uri -> the highest version stored since it was opened
    type_call,      \* "idle", or the file-type function last called
    type_input,     \* the extension or the URI path it was given
    type_result     \* the FileType it returned

checkVars == <<text, tokenizer_ok, tokens, diagnostics, called>>
posVars == <<pos_text, pos_offset, pos_result>>
queryVars == <<position, hover, semantic_tokens>>

mdVars == <<md_content, md_tree, md_result, md_spans>>

serverVars == <<config, documents, tasks, received, published, newest>>

typeVars == <<type_call, type_input, type_result>>

vars == <<checkVars, posVars, queryVars, mdVars, serverVars, typeVars>>

(***************************************************************************)
(* Strings                                                                 *)
(***************************************************************************)
LF == "LF"
CR == "CR"
Maru == "maru"
Whitespace == {"sp", LF, CR}

Min(a, b) == IF a < b THEN a ELSE b
Max(a, b) == IF a > b THEN a ELSE b

\* a.saturating_sub(b) on usize
SaturatingSub(a, b) == IF a >= b THEN a - b ELSE 0

\* the concatenation ss[1] \o ss[2] \o ... : a loop pushing to a Vec
RECURSIVE Flatten(_)
Flatten(ss) == IF ss = <<>> THEN <<>> ELSE Head(ss) \o Flatten(Tail(ss))

\* str::ends_with, str::starts_with, str::contains
EndsWith(s, suf) ==
    /\ Len(s) >= Len(suf)
    /\ SubSeq(s, Len(s) - Len(suf) + 1, Len(s)) = suf
StartsWith(s, pre) ==
    /\ Len(s) >= Len(pre)
    /\ SubSeq(s, 1, Len(pre)) = pre
Contains(s, sub) ==
    \E i \in 1..(Len(s) - Len(sub) + 1) : SubSeq(s, i, i + Len(sub) - 1) = sub

RECURSIVE TrimStart(_)
TrimStart(s) ==
    IF s # <<>> /\ Head(s) \in Whitespace THEN TrimStart(Tail(s)) ELSE s
RECURSIVE TrimEnd(_)
TrimEnd(s) ==
    IF s # <<>> /\ s[Len(s)] \in Whitespace
    THEN TrimEnd(SubSeq(s, 1, Len(s) - 1)) ELSE s
\* str::trim
Trim(s) == TrimEnd(TrimStart(s))

RECURSIVE LinesFrom(_, _)
\* str::lines: split at LF, a CR before the LF dropped, no line after a final LF
LinesFrom(cur, rest) ==
    IF rest = <<>> THEN (IF cur = <<>> THEN <<>> ELSE <<cur>>)
    ELSE IF Head(rest) = LF
         THEN <<(IF cur # <<>> /\ cur[Len(cur)] = CR
                 THEN SubSeq(cur, 1, Len(cur) - 1) ELSE cur)>>
              \o LinesFrom(<<>>, Tail(rest))
         ELSE LinesFrom(Append(cur, Head(rest)), Tail(rest))
Lines(s) == LinesFrom(<<>>, s)

RECURSIVE SplitFrom(_, _, _)
\* str::split(sep): the pieces between separators, the last one included
SplitFrom(cur, rest, sep) ==
    IF rest = <<>> THEN <<cur>>
    ELSE IF Head(rest) = sep
         THEN <<cur>> \o SplitFrom(<<>>, Tail(rest), sep)
         ELSE SplitFrom(Append(cur, Head(rest)), Tail(rest), sep)
Split(s, sep) == SplitFrom(<<>>, s, sep)

(***************************************************************************)
(* The dictionary (IPADIC feature columns) and lindera's segmenter         *)
(***************************************************************************)
Star == <<"*">>
Noun == <<"mei", "shi">>
Verb == <<"dou", "shi">>
Particle == <<"jo", "shi">>
AuxVerb == <<"jo", "dou", "shi">>
Symbol == <<"ki", "gou">>
Ichidan == <<"ichi", "dan">>
Godan == <<"go", "dan">>
Renyou == <<"ren", "you", "kei">>
Mizen == <<"mi", "zen", "kei">>
Kihon == <<"ki", "hon", "kei">>

\* a dictionary word: its surface and its nine feature columns
Word(surface, pos, ctype, cform, base) ==
    [surface |-> surface,
     details |-> <<pos, Star, Star, Star, ctype, cform, base, surface, surface>>]

Lexicon == {
    Word(<<"watashi">>, Noun, Star, Star, <<"watashi">>),
    Word(<<"hon">>, Noun, Star, Star, <<"hon">>),
    Word(<<"ko", "to">>, Noun, Star, Star, <<"ko", "to">>),
    Word(<<"go", "ran">>, Noun, Star, Star, <<"go", "ran">>),
    Word(<<"ka", "nou">>, Noun, Star, Star, <<"ka", "nou">>),
    Word(<<"ga">>, Particle, Star, Star, <<"ga">>),
    Word(<<"wo">>, Particle, Star, Star, <<"wo">>),
    Word(<<"ni">>, Particle, Star, Star, <<"ni">>),
    Word(<<"ha">>, Particle, Star, Star, <<"ha">>),
    Word(<<"no">>, Particle, Star, Star, <<"no">>),
    Word(<<"ka", "ra">>, Particle, Star, Star, <<"ka", "ra">>),
    Word(<<"ta", "ri">>, Particle, Star, Star, <<"ta", "ri">>),
    Word(<<"tabe">>, Verb, Ichidan, Renyou, <<"tabe", "ru">>),
    Word(<<"mi", "re", "ru">>, Verb, Ichidan, Kihon, <<"mi", "re", "ru">>),
    Word(<<"re", "ru">>, Verb, Ichidan, Kihon, <<"re", "ru">>),
    Word(<<"re">>, Verb, Ichidan, Renyou, <<"re", "ru">>),
    Word(<<"ra", "re">>, Verb, Ichidan, Renyou, <<"ra", "re", "ru">>),
    Word(<<"o", "ssha", "ra">>, Verb, Godan, Mizen, <<"o", "ssha", "ru">>),
    Word(<<"na", "ra">>, Verb, Godan, Mizen, <<"na", "ru">>),
    Word(<<"de", "ki">>, Verb, Ichidan, Renyou, <<"de", "ki", "ru">>),
    Word(<<"hashi", "ru">>, Verb, Godan, Kihon, <<"hashi", "ru">>),
    Word(<<"a", "ru">>, Verb, Godan, Kihon, <<"a", "ru">>),
    Word(<<"te", "ru">>, AuxVerb, Ichidan, Kihon, <<"te", "ru">>),
    Word(<<"de", "ru">>, AuxVerb, Ichidan, Kihon, <<"de", "ru">>),
    Word(<<"na">>, AuxVerb, Star, Star, <<"da">>),
    Word(<<"de", "su">>, AuxVerb, Star, Kihon, <<"de", "su">>),
    Word(<<"ma", "su">>, AuxVerb, Star, Kihon, <<"ma", "su">>),
    Word(<<"da">>, AuxVerb, Star, Kihon, <<"da">>),
    Word(<<"de">>, AuxVerb, Star, Renyou, <<"da">>),
    Word(<<Maru>>, Symbol, Star, Star, <<Maru>>)
}

\* a code point the dictionary does not know: one token, feature vector UNK
Unknown(ch) == [surface |-> <<ch>>, details |-> << <<"UNK">> >>]

RECURSIVE Segment(_)
\* lindera's Tokenizer::tokenize on a text it accepts: the longest dictionary
\* word at each position, an unknown code point alone
Segment(s) ==
    IF s = <<>> THEN <<>>
    ELSE LET matches == {w \in Lexicon : StartsWith(s, w.surface)}
             best == CHOOSE w \in matches :
                        \A v \in matches : Len(v.surface) <= Len(w.surface)
             tok == IF matches = {} THEN Unknown(Head(s)) ELSE best
         IN  <<tok>> \o Segment(SubSeq(s, Len(tok.surface) + 1, Len(s)))

(***************************************************************************)
(* MorphologicalAnalyzer::tokenize                                         *)
(***************************************************************************)
\* details.get(i) with its fallback (i counted from 0 as in the source)
Detail(details, i, fallback) ==
    IF i + 1 <= Len(details) THEN details[i + 1] ELSE fallback

\* a running total of UTF-8 bytes (three per kana) instead of code points
OffsetStepBytes(char_length) == 3 * char_length

\* the amount the running char_offset advances by after a token
OffsetStep(char_length) == char_length

\* the char_offset the first token gets
FirstOffset == 0

RECURSIVE TokenInfos(_, _)
\* the loop of tokenize: raw tokens to TokenInfo, char_offset a running total
TokenInfos(raw, char_offset) ==
    IF raw = <<>> THEN <<>>
    ELSE LET token == Head(raw)
             surface == token.surface
             char_length == Len(surface)
             details == token.details
             token_info ==
                 [surface |-> surface,
                  pos |-> Detail(details, 0, Star),
                  pos_detail1 |-> Detail(details, 1, Star),
                  pos_detail2 |-> Detail(details, 2, Star),
                  pos_detail3 |-> Detail(details, 3, Star),
                  conjugation_type |-> Detail(details, 4, Star),
                  conjugation_form |-> Detail(details, 5, Star),
                  base_form |-> Detail(details, 6, surface),
                  reading |-> Detail(details, 7, <<>>),
                  pronunciation |-> Detail(details, 8, <<>>),
                  char_offset |-> char_offset,
                  char_length |-> char_length]
         IN  <<token_info>>
             \o TokenInfos(Tail(raw), char_offset + OffsetStep(char_length))

\* tokenize(text): an Err of the tokenizer gives the empty Vec
tokenize(s, ok) == IF ok THEN TokenInfos(Segment(s), FirstOffset) ELSE <<>>

(***************************************************************************)
(* GrammarChecker::char_offset_to_position and the range helpers           *)
(***************************************************************************)
RECURSIVE PositionFrom(_, _, _, _)
\* the loop of char_offset_to_position from line line_num (counted from 0)
PositionFrom(lines, char_offset, line_num, current_offset) ==
    IF line_num >= Len(lines) THEN <<0, 0>>
    ELSE LET line_len == Len(lines[line_num + 1])
         IN  IF current_offset + line_len >= char_offset
             THEN <<line_num, char_offset - current_offset>>
             ELSE PositionFrom(lines, char_offset, line_num + 1,
                               current_offset + line_len + 1)

char_offset_to_position(lines, char_offset) ==
    PositionFrom(lines, char_offset, 0, 0)

Position(p) == [line |-> p[1], character |-> p[2]]

\* tokens_to_range(&[first, .., last], lines)
tokens_to_range(first, last, lines) ==
    [start |-> Position(char_offset_to_position(lines, first.char_offset)),
     end |-> Position(char_offset_to_position(
                 lines, last.char_offset + last.char_length))]

token_to_range(token, lines) == tokens_to_range(token, token, lines)

(***************************************************************************)
(* MorphologicalAnalyzer::get_hover_info and format_token_info             *)
(***************************************************************************)
\* Option<T>
None == <<>>
Some(v) == <<v>>

\* format_token_info(token): the Markdown text, a fixed label written as one
\* element
format_token_info(token) ==
    <<"## ">> \o token.surface \o <<LF, LF>>
    \o <<"**pos**: ">> \o token.pos
    \o (IF token.pos_detail1 # Star THEN <<"-">> \o token.pos_detail1 ELSE <<>>)
    \o (IF token.pos_detail2 # Star THEN <<"-">> \o token.pos_detail2 ELSE <<>>)
    \o (IF token.pos_detail3 # Star THEN <<"-">> \o token.pos_detail3 ELSE <<>>)
    \o <<LF>>
    \o (IF token.base_form # Star /\ token.base_form # token.surface
        THEN <<LF, "**base_form**: ">> \o token.base_form \o <<LF>> ELSE <<>>)
    \o (IF token.conjugation_type # Star
        THEN <<"**conjugation_type**: ">> \o token.conjugation_type \o <<LF>>
        ELSE <<>>)
    \o (IF token.conjugation_form # Star
        THEN <<"**conjugation_form**: ">> \o token.conjugation_form \o <<LF>>
        ELSE <<>>)
    \o (IF token.reading # <<>> /\ token.reading # Star
        THEN <<LF, "**reading**: ">> \o token.reading \o <<LF>> ELSE <<>>)

RECURSIVE HoverOffsetFrom(_, _, _, _)
\* the loop that turns the position into a char_offset, from line i (counted
\* from 0) with char_offset as it stands
HoverOffsetFrom(lines, pos, i, char_offset) ==
    IF i >= Len(lines) THEN char_offset
    ELSE IF i = pos.line THEN char_offset + pos.character
    ELSE HoverOffsetFrom(lines, pos, i + 1, char_offset + Len(lines[i + 1]) + 1)

\* the test with the end of the token included
HoverHitClosed(token, char_offset) ==
    LET token_end == token.char_offset + token.char_length
    IN  token.char_offset <= char_offset /\ char_offset <= token_end

\* "token.char_offset <= char_offset && char_offset < token_end"
HoverHit(token, char_offset) ==
    LET token_end == token.char_offset + token.char_length
    IN  token.char_offset <= char_offset /\ char_offset < token_end

get_hover_info(s, ok, pos) ==
    LET toks == tokenize(s, ok)
        lines == Lines(s)
        char_offset == HoverOffsetFrom(lines, pos, 0, 0)
        hits == {i \in 1..Len(toks) : HoverHit(toks[i], char_offset)}
    IN  IF pos.line >= Len(lines) THEN None
        ELSE IF hits = {} THEN None
        ELSE Some(format_token_info(
                      toks[CHOOSE i \in hits : \A j \in hits : i <= j]))

(***************************************************************************)
(* MorphologicalAnalyzer::get_semantic_tokens                              *)
(***************************************************************************)
\* A u32 is written as its two halves (high, low) of sixteen bits each, its
\* value being high * U16 + low: the values a wrapped subtraction gives lie
\* beyond the integers TLC computes with.
U16 == 65536

\* n as u32, for 0 <= n
U32Of(n) == <<n \div U16, n % U16>>

\* a.wrapping_sub(b) for a and b below U16: a - b, or 2^32 - (b - a)
WrappingSub(a, b) ==
    IF a >= b THEN U32Of(a - b) ELSE <<U16 - 1, U16 - (b - a)>>

pos_to_token_type(pos) ==
    CASE pos = Noun -> 0
      [] pos = Verb -> 1
      [] pos = <<"kei", "you", "shi">> -> 2
      [] pos = <<"fuku", "shi">> -> 3
      [] pos = Particle -> 4
      [] pos = AuxVerb -> 5
      [] pos = <<"setsu", "zoku", "shi">> -> 6
      [] OTHER -> 7

RECURSIVE SemanticTokensFrom(_, _, _, _, _, _)
\* the for loop from token i (counted from 1).  line - prev_line and
\* col - prev_char are u32 subtractions: below zero they panic in a build with
\* overflow checks and wrap around in a build without
SemanticTokensFrom(toks, lines, i, prev_line, prev_char, overflow_checks) ==
    IF i > Len(toks) THEN [panicked |-> FALSE, tokens |-> <<>>]
    ELSE LET token == toks[i]
             p == char_offset_to_position(lines, token.char_offset)
             line == p[1]
             col == p[2]
             delta_line == WrappingSub(line, prev_line)
             delta_start == IF delta_line = U32Of(0)
                            THEN WrappingSub(col, prev_char) ELSE U32Of(col)
             below_zero == line < prev_line
                           \/ (delta_line = U32Of(0) /\ col < prev_char)
             rest == SemanticTokensFrom(toks, lines, i + 1, line, col,
                                        overflow_checks)
         IN  IF (below_zero /\ overflow_checks) \/ rest.panicked
             THEN [panicked |-> TRUE, tokens |-> <<>>]
             ELSE [panicked |-> FALSE,
                   tokens |-> <<[delta_line |-> delta_line,
                                 delta_start |-> delta_start,
                                 length |-> token.char_length,
                                 token_type |-> pos_to_token_type(token.pos),
                                 token_modifiers_bitset |-> 0]>>
                              \o rest.tokens]

get_semantic_tokens(s, ok, overflow_checks) ==
    SemanticTokensFrom(tokenize(s, ok), Lines(s), 1, 0, 0, overflow_checks)

(***************************************************************************)
(* Diagnostics                                                             *)
(***************************************************************************)
\* a format!() result: the template and the values put into its {} holes
Message(template, args) == [template |-> template, args |-> args]

Diagnostic(range, severity, code, message) ==
    [range |-> range, severity |-> severity, code |-> code,
     source |-> "mozuku", message |-> message]

RECURSIVE ReplaceFirst(_, _, _)
\* str::replacen(pat, rep, 1): the first occurrence from the left
ReplaceFirst(s, pat, rep) ==
    IF Len(s) < Len(pat) THEN s
    ELSE IF StartsWith(s, pat)
         THEN rep \o SubSeq(s, Len(pat) + 1, Len(s))
         ELSE <<Head(s)>> \o ReplaceFirst(Tail(s), pat, rep)

Reru == <<"re", "ru">>
Rareru == <<"ra", "re", "ru">>

(***************************************************************************)
(* GrammarChecker::check_ra_nuki                                           *)
(***************************************************************************)
\* pattern (a) at token i (counted from 1)
RaNukiSingle(toks, lines, i) ==
    LET token == toks[i]
        base == token.base_form
    IN  IF /\ token.pos = Verb
           /\ Contains(token.conjugation_type, Ichidan)
           /\ EndsWith(token.surface, Reru)
           /\ EndsWith(base, Reru) /\ ~EndsWith(base, Rareru)
        THEN <<Diagnostic(token_to_range(token, lines), "WARNING", "ra-nuki",
                   Message("ra-nuki: {} -> {}",
                       <<token.surface,
                         ReplaceFirst(token.surface, Reru, Rareru)>>))>>
        ELSE <<>>

\* pattern (b) at token i (counted from 1), prev = token i - 1
RaNukiPair(toks, lines, i) ==
    IF i > 1 /\ toks[i].surface = Reru /\ toks[i].pos = Verb
    THEN LET token == toks[i]
             prev == toks[i - 1]
         IN  IF /\ prev.pos = Verb
                /\ Contains(prev.conjugation_type, Ichidan)
                /\ Contains(prev.conjugation_form, Renyou)
             THEN <<Diagnostic(tokens_to_range(prev, token, lines),
                        "WARNING", "ra-nuki",
                        Message("ra-nuki: {} -> {}",
                            <<prev.surface \o token.surface,
                              prev.surface \o Rareru>>))>>
             ELSE <<>>
    ELSE <<>>

check_ra_nuki(toks, lines) ==
    Flatten([i \in 1..Len(toks) |->
                 RaNukiSingle(toks, lines, i) \o RaNukiPair(toks, lines, i)])

(***************************************************************************)
(* GrammarChecker::check_i_nuki                                            *)
(***************************************************************************)
INukiAt(toks, lines, i, surface, template) ==
    IF /\ i > 1 /\ toks[i].surface = surface /\ toks[i].pos = AuxVerb
       /\ toks[i - 1].pos = Verb
    THEN <<Diagnostic(token_to_range(toks[i], lines), "HINT", "i-nuki",
               Message(template, <<>>))>>
    ELSE <<>>

check_i_nuki(toks, lines) ==
    Flatten([i \in 1..Len(toks) |->
                 INukiAt(toks, lines, i, <<"te", "ru">>, "i-nuki: teru -> teiru")
                 \o INukiAt(toks, lines, i, <<"de", "ru">>, "i-nuki: deru -> deiru")])

(***************************************************************************)
(* GrammarChecker::check_double_particle                                   *)
(***************************************************************************)
\* the list with the topic particle added to it
target_particles_with_ha ==
    {<<"ga">>, <<"wo">>, <<"ni">>, <<"he">>, <<"de">>, <<"to">>,
     <<"ka", "ra">>, <<"ma", "de">>, <<"yo", "ri">>, <<"ha">>}

target_particles ==
    {<<"ga">>, <<"wo">>, <<"ni">>, <<"he">>, <<"de">>, <<"to">>,
     <<"ka", "ra">>, <<"ma", "de">>, <<"yo", "ri">>}

\* the pair (current, next) = (token i, token i + 1), i counted from 1
DoubleParticleAt(toks, lines, i) ==
    LET current == toks[i]
        next == toks[i + 1]
    IN  IF /\ current.pos = Particle
           /\ next.pos = Particle
           /\ current.surface = next.surface
           /\ current.surface \in target_particles
        THEN <<Diagnostic(tokens_to_range(current, next, lines),
                   "ERROR", "double-particle",
                   Message("double-particle: {}", <<current.surface>>))>>
        ELSE <<>>

check_double_particle(toks, lines) ==
    Flatten([i \in 1..SaturatingSub(Len(toks), 1) |-> DoubleParticleAt(toks, lines, i)])

(***************************************************************************)
(* GrammarChecker::check_redundant_na                                      *)
(***************************************************************************)
RedundantNaAt(toks, lines, i) ==
    LET current == toks[i]
        next == toks[i + 1]
    IN  IF /\ current.surface = <<"na">>
           /\ next.surface = <<"na">>
           /\ current.pos = AuxVerb
           /\ next.pos = AuxVerb
        THEN <<Diagnostic(tokens_to_range(current, next, lines),
                   "ERROR", "redundant-na", Message("redundant-na", <<>>))>>
        ELSE <<>>

check_redundant_na(toks, lines) ==
    Flatten([i \in 1..SaturatingSub(Len(toks), 1) |-> RedundantNaAt(toks, lines, i)])

(***************************************************************************)
(* GrammarChecker::check_double_honorific                                  *)
(***************************************************************************)
\* (stem, correct form) in the order of the source's array
honorific_stems == <<
    <<<<"o", "ssha">>, <<"o", "ssha", "ru">>>>,
    <<<<"i", "ra", "ssha">>, <<"i", "ra", "ssha", "ru">>>>,
    <<<<"na", "sa">>, <<"na", "sa", "ru">>>>,
    <<<<"ku", "da", "sa">>, <<"ku", "da", "sa", "ru">>>>,
    <<<<"meshi", "a", "ga">>, <<"meshi", "a", "ga", "ru">>>> >>

Re == <<"re">>
Rare == <<"ra", "re">>

\* the stem loop without the test of next.pos
HonorificStemAnyPosAt(toks, lines, i) ==
    LET current == toks[i]
        next == toks[i + 1]
        hits == {k \in 1..Len(honorific_stems) :
                    /\ StartsWith(current.surface, honorific_stems[k][1])
                    /\ current.pos = Verb
                    /\ (next.surface = Re \/ next.surface = Rare)}
    IN  IF hits = {} THEN <<>>
        ELSE LET k == CHOOSE h \in hits : \A g \in hits : h <= g
             IN  <<Diagnostic(tokens_to_range(current, next, lines),
                       "WARNING", "double-honorific",
                       Message("double-honorific: {}{} -> {}",
                           <<current.surface, next.surface,
                             honorific_stems[k][2]>>))>>

\* the stem loop at the pair (token i, token i + 1): the first stem that
\* matches pushes one diagnostic and breaks
HonorificStemAt(toks, lines, i) ==
    LET current == toks[i]
        next == toks[i + 1]
        hits == {k \in 1..Len(honorific_stems) :
                    /\ StartsWith(current.surface, honorific_stems[k][1])
                    /\ current.pos = Verb
                    /\ (next.surface = Re \/ next.surface = Rare)
                    /\ next.pos = Verb}
    IN  IF hits = {} THEN <<>>
        ELSE LET k == CHOOSE h \in hits : \A g \in hits : h <= g
             IN  <<Diagnostic(tokens_to_range(current, next, lines),
                       "WARNING", "double-honorific",
                       Message("double-honorific: {}{} -> {}",
                           <<current.surface, next.surface,
                             honorific_stems[k][2]>>))>>

\* the window (t0, t1, t2, t3) = tokens i .. i + 3
HonorificGoAt(toks, lines, i) ==
    LET t0 == toks[i]
        t1 == toks[i + 1]
        t2 == toks[i + 2]
        t3 == toks[i + 3]
    IN  IF /\ StartsWith(t0.surface, <<"go">>)
           /\ t1.surface = <<"ni">>
           /\ (t2.surface = <<"na", "ra">> \/ t2.surface = <<"na", "ri">>)
           /\ (t3.surface = Re \/ t3.surface = Rare)
        THEN <<Diagnostic(tokens_to_range(t0, t3, lines),
                   "WARNING", "double-honorific",
                   Message("double-honorific: {}{}{}{} -> {}ninaru",
                       <<t0.surface, t1.surface, t2.surface, t3.surface,
                         t0.surface>>))>>
        ELSE <<>>

check_double_honorific(toks, lines) ==
    Flatten([i \in 1..SaturatingSub(Len(toks), 1) |-> HonorificStemAt(toks, lines, i)])
    \o Flatten([i \in 1..SaturatingSub(Len(toks), 3) |-> HonorificGoAt(toks, lines, i)])

(***************************************************************************)
(* GrammarChecker::check_redundant_expression                              *)
(***************************************************************************)
\* the window starting at token i (counted from 1); n = tokens.len()
RedundantExpressionAt(toks, lines, i) ==
    LET t0 == toks[i]
        t1 == toks[i + 1]
        t2 == toks[i + 2]
        t3_is_some == (i - 1) + 3 < Len(toks)
    IN  IF t0.surface = <<"ko", "to">> /\ t1.surface = <<"ga">> /\ t3_is_some
        THEN IF t2.surface = <<"de", "ki">> \/ t2.base_form = <<"de", "ki", "ru">>
             THEN <<Diagnostic(tokens_to_range(t0, t2, lines),
                        "HINT", "redundant-expression",
                        Message("redundant: kotogadekiru -> dekiru", <<>>))>>
             ELSE IF t2.surface = <<"ka", "nou">>
                  THEN <<Diagnostic(tokens_to_range(t0, t2, lines),
                             "HINT", "redundant-expression",
                             Message("redundant: kotogakanou -> dekiru", <<>>))>>
                  ELSE <<>>
        ELSE <<>>

\* the window at token i reported whether or not a token follows it
RedundantExpressionUnguardedAt(toks, lines, i) ==
    LET t0 == toks[i]
        t1 == toks[i + 1]
        t2 == toks[i + 2]
    IN  IF t0.surface = <<"ko", "to">> /\ t1.surface = <<"ga">>
        THEN IF t2.surface = <<"de", "ki">> \/ t2.base_form = <<"de", "ki", "ru">>
             THEN <<Diagnostic(tokens_to_range(t0, t2, lines),
                        "HINT", "redundant-expression",
                        Message("redundant: kotogadekiru -> dekiru", <<>>))>>
             ELSE IF t2.surface = <<"ka", "nou">>
                  THEN <<Diagnostic(tokens_to_range(t0, t2, lines),
                             "HINT", "redundant-expression",
                             Message("redundant: kotogakanou -> dekiru", <<>>))>>
                  ELSE <<>>
        ELSE <<>>

\* the loop running up to the last window of three tokens
check_redundant_expression_unguarded(toks, lines) ==
    Flatten([i \in 1..SaturatingSub(Len(toks), 2) |->
                 RedundantExpressionUnguardedAt(toks, lines, i)])

check_redundant_expression(toks, lines) ==
    Flatten([i \in 1..SaturatingSub(Len(toks), 3) |-> RedundantExpressionAt(toks, lines, i)])

(***************************************************************************)
(* GrammarChecker::check_tari_parallel                                     *)
(***************************************************************************)
Tari == <<"ta", "ri">>

\* the rule without the search for a later word ending in tari
check_tari_parallel_any_verb(toks, lines) ==
    LET tari_positions == {i \in 1..Len(toks) : toks[i].surface = Tari}
    IN  IF Cardinality(tari_positions) = 1
        THEN LET tari_idx == CHOOSE i \in tari_positions : TRUE
                 has_following_verb ==
                     \E j \in (tari_idx + 1)..Len(toks) :
                         toks[j].pos = Verb /\ ~EndsWith(toks[j].surface, Tari)
             IN  IF has_following_verb
                 THEN <<Diagnostic(token_to_range(toks[tari_idx], lines),
                            "WARNING", "incomplete-tari",
                            Message("incomplete-tari", <<>>))>>
                 ELSE <<>>
        ELSE <<>>

check_tari_parallel(toks, lines) ==
    LET tari_positions == {i \in 1..Len(toks) : toks[i].surface = Tari}
    IN  IF Cardinality(tari_positions) = 1
        THEN LET tari_idx == CHOOSE i \in tari_positions : TRUE
                 tari_token == toks[tari_idx]
                 has_following_verb ==
                     \E j \in (tari_idx + 1)..Len(toks) :
                         toks[j].pos = Verb /\ ~EndsWith(toks[j].surface, Tari)
                 has_following_tari ==
                     \E j \in (tari_idx + 1)..Len(toks) :
                         toks[j].surface = Tari \/ EndsWith(toks[j].surface, Tari)
             IN  IF has_following_verb /\ ~has_following_tari
                 THEN <<Diagnostic(token_to_range(tari_token, lines),
                            "WARNING", "incomplete-tari",
                            Message("incomplete-tari", <<>>))>>
                 ELSE <<>>
        ELSE <<>>

(***************************************************************************)
(* GrammarChecker::check_consecutive_no and report_consecutive_no          *)
(***************************************************************************)
No == <<"no">>

\* the report made a Warning
report_consecutive_no_as_warning(no_positions, lines) ==
    LET first == no_positions[1]
        last == no_positions[Len(no_positions)]
    IN  Diagnostic(
            [start |-> Position(char_offset_to_position(lines, first.char_offset)),
             end |-> Position(char_offset_to_position(
                         lines, last.char_offset + last.char_length))],
            "WARNING", "consecutive-no",
            Message("consecutive-no: {} times", <<<<ToString(Len(no_positions))>>>>))

report_consecutive_no(no_positions, lines) ==
    LET first == no_positions[1]
        last == no_positions[Len(no_positions)]
    IN  Diagnostic(
            [start |-> Position(char_offset_to_position(lines, first.char_offset)),
             end |-> Position(char_offset_to_position(
                         lines, last.char_offset + last.char_length))],
            "HINT", "consecutive-no",
            Message("consecutive-no: {} times", <<<<ToString(Len(no_positions))>>>>))

\* "if no_positions.len() >= 2 { report }": a threshold of two
ReportIfTwo(no_positions, lines) ==
    IF Len(no_positions) >= 2
    THEN <<report_consecutive_no(no_positions, lines)>> ELSE <<>>

\* "if no_positions.len() >= 3 { report }" as the diagnostics it pushes
ReportIfThree(no_positions, lines) ==
    IF Len(no_positions) >= 3
    THEN <<report_consecutive_no(no_positions, lines)>> ELSE <<>>

RECURSIVE ConsecutiveNoFrom(_, _, _, _)
\* the while loop from token i (counted from 1) with no_positions as it stands
ConsecutiveNoFrom(toks, lines, i, no_positions) ==
    IF i > Len(toks) THEN ReportIfThree(no_positions, lines)
    ELSE LET token == toks[i]
         IN  IF token.surface = No /\ token.pos = Particle
             THEN IF i > 1 /\ toks[i - 1].pos = Noun
                  THEN ConsecutiveNoFrom(toks, lines, i + 1,
                                         Append(no_positions, token))
                  ELSE ReportIfThree(no_positions, lines)
                       \o ConsecutiveNoFrom(toks, lines, i + 1, <<>>)
             ELSE IF token.pos # Noun /\ no_positions # <<>>
                  THEN ReportIfThree(no_positions, lines)
                       \o ConsecutiveNoFrom(toks, lines, i + 1, <<>>)
                  ELSE ConsecutiveNoFrom(toks, lines, i + 1, no_positions)

check_consecutive_no(toks, lines) == ConsecutiveNoFrom(toks, lines, 1, <<>>)

(***************************************************************************)
(* GrammarChecker::check_consecutive_sentence_endings                      *)
(***************************************************************************)
Desu == <<"de", "su">>
Masu == <<"ma", "su">>
Dearu == <<"de", "a", "ru">>
Da == <<"da">>

\* the ending pattern of a trimmed sentence, "" when none
EndingOf(trimmed) ==
    IF EndsWith(trimmed, Desu) THEN Desu
    ELSE IF EndsWith(trimmed, Masu) THEN Masu
    ELSE IF EndsWith(trimmed, Dearu) THEN Dearu
    ELSE IF EndsWith(trimmed, Da) THEN Da
    ELSE <<>>

RECURSIVE SumLengths(_, _)
\* sentences[..=i].iter().map(|s| s.chars().count() + 1).sum(), i from 1
SumLengths(sentences, i) ==
    IF i = 0 THEN 0 ELSE Len(sentences[i]) + 1 + SumLengths(sentences, i - 1)

\* the diagnostic pushed at sentence i once the count has reached three
EndingsDiagnostic(s, sentences, i, last_ending, consecutive_count) ==
    LET char_offset == SumLengths(sentences, i)
        p == char_offset_to_position(Lines(s), SaturatingSub(char_offset, 3))
    IN  Diagnostic(
            [start |-> [line |-> p[1], character |-> p[2]],
             end |-> [line |-> p[1], character |-> p[2] + 2]],
            "HINT", "consecutive-endings",
            Message("consecutive-endings: {} {} times",
                <<last_ending, <<ToString(consecutive_count)>>>>))

\* the value consecutive_count is reset to after a report
CountAfterReport == 1

RECURSIVE EndingsFrom(_, _, _, _, _)
\* the for loop from sentence i (counted from 1)
EndingsFrom(s, sentences, i, consecutive_count, last_ending) ==
    IF i > Len(sentences) THEN <<>>
    ELSE LET trimmed == Trim(sentences[i])
             ending == EndingOf(trimmed)
             count == IF ending = last_ending THEN consecutive_count + 1 ELSE 1
         IN  IF trimmed = <<>>
             THEN EndingsFrom(s, sentences, i + 1, consecutive_count, last_ending)
             ELSE IF ending = <<>>
             THEN EndingsFrom(s, sentences, i + 1, 1, <<>>)
             ELSE IF count >= 3
             THEN <<EndingsDiagnostic(s, sentences, i, ending, count)>>
                  \o EndingsFrom(s, sentences, i + 1, CountAfterReport, ending)
             ELSE EndingsFrom(s, sentences, i + 1, count, ending)

check_consecutive_sentence_endings(s) ==
    LET sentences == SelectSeq(Split(s, Maru), LAMBDA x : x # <<>>)
    IN  IF Len(sentences) < 3 THEN <<>>
        ELSE EndingsFrom(s, sentences, 1, 1, <<>>)

(***************************************************************************)
(* GrammarChecker::check                                                   *)
(***************************************************************************)
\* the nine rules in the order check runs them, on the tokens it was given
run_checks(toks, s) ==
    LET lines == Lines(s)
    IN  check_ra_nuki(toks, lines)
        \o check_i_nuki(toks, lines)
        \o check_double_particle(toks, lines)
        \o check_redundant_na(toks, lines)
        \o check_double_honorific(toks, lines)
        \o check_redundant_expression(toks, lines)
        \o check_consecutive_sentence_endings(s)
        \o check_tari_parallel(toks, lines)
        \o check_consecutive_no(toks, lines)

check(s, ok) == run_checks(tokenize(s, ok), s)

(***************************************************************************)
(* TextExtractor: spans of prose, and the Markdown tree they are read from *)
(***************************************************************************)
\* the code points that take one byte in UTF-8; kana and kanji take three
Ascii == {"a", "x", "=", "sp", "#", "-", "tick", LF, CR,
          "/", "*", "!", "dq", "sq", "f", "r", "{", "}", "."}
ByteLen(ch) == IF ch \in Ascii THEN 1 ELSE 3

\* str::len, the length in bytes
RECURSIVE ByteCount(_)
ByteCount(s) == IF s = <<>> THEN 0 ELSE ByteLen(Head(s)) + ByteCount(Tail(s))

TextSpan(span_text, start_byte, end_byte, start_line, start_col, end_line, end_col) ==
    [text |-> span_text, start_byte |-> start_byte, end_byte |-> end_byte,
     start_line |-> start_line, start_col |-> start_col,
     end_line |-> end_line, end_col |-> end_col]

\* extract_plain_text(content)
extract_plain_text(content) ==
    IF content = <<>> THEN <<>>
    ELSE LET lines == Lines(content)
             end_line == SaturatingSub(Len(lines), 1)
             end_col == IF lines = <<>> THEN 0 ELSE ByteCount(lines[Len(lines)])
         IN  <<TextSpan(content, 0, ByteCount(content), 0, 0, end_line, end_col)>>

\* a tree_sitter::Node: its kind, the code points [from, to) of the source it
\* covers (counted from 0) and its children in document order
Node(kind, from, to, children) ==
    [kind |-> kind, from |-> from, to |-> to, children |-> children]

\* node.utf8_text(source)
NodeText(node, source) == SubSeq(source, node.from + 1, node.to)

\* node.start_byte() and node.end_byte(), for the code point offset off
ByteOffset(source, off) == ByteCount(SubSeq(source, 1, off))

\* a tree_sitter::Point: the row, and the column counted in bytes
RowOf(source, off) == Cardinality({i \in 1..off : source[i] = LF})
ColumnOf(source, off) ==
    LET breaks == {i \in 1..off : source[i] = LF}
        line_start == IF breaks = {} THEN 0
                      ELSE CHOOSE i \in breaks : \A j \in breaks : j <= i
    IN  ByteCount(SubSeq(source, line_start + 1, off))

text_node_types == {"paragraph", "heading_content", "list_item", "atx_heading"}
skip_types == {"code_block", "fenced_code_block", "code_span", "indented_code_block"}

\* collect_markdown_text(node, source, &mut spans): the spans it pushes
RECURSIVE collect_markdown_text(_, _)
collect_markdown_text(node, source) ==
    IF node.kind \in skip_types THEN <<>>
    ELSE LET trimmed == Trim(NodeText(node, source))
             own == IF node.kind \in text_node_types /\ trimmed # <<>>
                    THEN <<TextSpan(trimmed,
                                    ByteOffset(source, node.from),
                                    ByteOffset(source, node.to),
                                    RowOf(source, node.from),
                                    ColumnOf(source, node.from),
                                    RowOf(source, node.to),
                                    ColumnOf(source, node.to))>>
                    ELSE <<>>
         IN  own \o Flatten([i \in 1..Len(node.children) |->
                                collect_markdown_text(node.children[i], source)])

RECURSIVE TrimStartMatches(_, _)
\* str::trim_start_matches(pat): pat removed from the start as often as it
\* is found there
TrimStartMatches(s, pat) ==
    IF StartsWith(s, pat)
    THEN TrimStartMatches(SubSeq(s, Len(pat) + 1, Len(s)), pat)
    ELSE s

RECURSIVE TrimEndMatches(_, _)
\* str::trim_end_matches(pat)
TrimEndMatches(s, pat) ==
    IF EndsWith(s, pat)
    THEN TrimEndMatches(SubSeq(s, 1, Len(s) - Len(pat)), pat)
    ELSE s

\* the result of a call that either returns a String or panics
Returned(v) == [panicked |-> FALSE, value |-> v]
Panicked == [panicked |-> TRUE, value |-> <<>>]

\* &s[from..to] on a str, offsets in bytes: a panic when from > to, when to
\* is past the end or when an offset is inside a code point
Slice(s, from, to) ==
    LET At(off) == {i \in 0..Len(s) : ByteCount(SubSeq(s, 1, i)) = off}
    IN  IF from > to \/ At(from) = {} \/ At(to) = {}
        THEN Panicked
        ELSE Returned(SubSeq(s, (CHOOSE i \in At(from) : TRUE) + 1,
                             CHOOSE i \in At(to) : TRUE))

Slashes(n) == [i \in 1..n |-> "/"]
Quotes == <<"dq", "dq", "dq">>
Apostrophes == <<"sq", "sq", "sq">>

\* strip_comment_markers(text, kind)
strip_comment_markers(comment_text, kind) ==
    CASE kind = "line_comment" ->
            Returned(Trim(TrimStartMatches(
                TrimStartMatches(
                    TrimStartMatches(comment_text, Slashes(3)),
                    <<"/", "/", "!">>),
                Slashes(2))))
      [] kind = "block_comment" ->
            Returned(Trim(TrimEndMatches(
                TrimStartMatches(
                    TrimStartMatches(
                        TrimStartMatches(comment_text, <<"/", "*", "*">>),
                        <<"/", "*", "!">>),
                    <<"/", "*">>),
                <<"*", "/">>)))
      [] kind = "comment" ->
            LET trimmed == Trim(comment_text)
            IN  IF StartsWith(trimmed, <<"#">>)
                THEN Returned(Trim(TrimStartMatches(trimmed, <<"#">>)))
                ELSE IF StartsWith(trimmed, Slashes(2))
                THEN Returned(Trim(TrimStartMatches(trimmed, Slashes(2))))
                ELSE IF StartsWith(trimmed, <<"/", "*">>)
                THEN Returned(Trim(TrimEndMatches(
                         TrimStartMatches(trimmed, <<"/", "*">>), <<"*", "/">>)))
                ELSE Returned(trimmed)
      [] kind = "string" ->
            LET trimmed == Trim(comment_text)
            IN  IF StartsWith(trimmed, Quotes) \/ StartsWith(trimmed, Apostrophes)
                THEN LET sliced == Slice(trimmed, 3,
                                         SaturatingSub(ByteCount(trimmed), 3))
                     IN  IF sliced.panicked THEN Panicked
                         ELSE Returned(Trim(sliced.value))
                ELSE Returned(<<>>)
      [] OTHER -> Returned(comment_text)

\* collect_comments(node, source, &mut spans, comment_types): whether it
\* panicked, and the spans it pushed
RECURSIVE collect_comments(_, _, _)
collect_comments(node, source, comment_types) ==
    LET cleaned == IF node.kind \in comment_types
                   THEN strip_comment_markers(NodeText(node, source), node.kind)
                   ELSE Returned(<<>>)
        own == IF node.kind \in comment_types /\ Trim(cleaned.value) # <<>>
               THEN <<TextSpan(cleaned.value,
                               ByteOffset(source, node.from),
                               ByteOffset(source, node.to),
                               RowOf(source, node.from),
                               ColumnOf(source, node.from),
                               RowOf(source, node.to),
                               ColumnOf(source, node.to))>>
               ELSE <<>>
        below == [i \in 1..Len(node.children) |->
                    collect_comments(node.children[i], source, comment_types)]
    IN  IF cleaned.panicked \/ \E i \in 1..Len(below) : below[i].panicked
        THEN [panicked |-> TRUE, spans |-> <<>>]
        ELSE [panicked |-> FALSE,
              spans |-> own \o Flatten([i \in 1..Len(below) |-> below[i].spans])]

rust_comment_types == {"line_comment", "block_comment"}
python_comment_types == {"comment", "string"}

(***************************************************************************)
(* The comments of tree-sitter-rust and tree-sitter-python, for files of   *)
(* comments, strings and functions, one item to a line.  A Rust function   *)
(* is written f{ body } where body is a comment, or a string literal,      *)
(* which is code.  A Python string may be the object of an attribute       *)
(* access, written string.a; when the buffer ends inside a docstring that  *)
(* was just opened, the string node is the three quotes alone, closed by a *)
(* zero-width MISSING string_end.                                          *)
(***************************************************************************)
Comment(kind, source) == [kind |-> kind, source |-> source, body |-> <<>>]
Function(body) == [kind |-> "function_item", source |-> <<>>, body |-> <<body>>]
Literal(source) == [kind |-> "string_literal", source |-> source, body |-> <<>>]
Attribute(object) == [kind |-> "attribute", source |-> <<>>, body |-> <<object>>]

RECURSIVE ItemText(_)
ItemText(item) ==
    CASE item.kind = "function_item" ->
            <<"f", "{", "sp">> \o ItemText(item.body[1]) \o <<LF, "}">>
      [] item.kind = "attribute" -> ItemText(item.body[1]) \o <<".", "a">>
      [] OTHER -> item.source

RECURSIVE ItemNode(_, _)
\* the node of an item whose first code point is at offset off
ItemNode(item, off) ==
    CASE item.kind = "function_item" ->
            Node("function_item", off, off + Len(ItemText(item)),
                 <<Node("block", off + 1, off + Len(ItemText(item)),
                        <<ItemNode(item.body[1], off + 3)>>)>>)
      [] item.kind = "attribute" ->
            Node("attribute", off, off + Len(ItemText(item)),
                 <<ItemNode(item.body[1], off),
                   Node("identifier", off + Len(ItemText(item)) - 1,
                        off + Len(ItemText(item)), <<>>)>>)
      [] OTHER -> Node(item.kind, off, off + Len(item.source), <<>>)

RECURSIVE FileSource(_)
FileSource(items) ==
    IF items = <<>> THEN <<>>
    ELSE ItemText(Head(items)) \o <<LF>> \o FileSource(Tail(items))

RECURSIVE ItemNodes(_, _)
ItemNodes(items, off) ==
    IF items = <<>> THEN <<>>
    ELSE <<ItemNode(Head(items), off)>>
         \o ItemNodes(Tail(items), off + Len(ItemText(Head(items))) + 1)

\* parser.parse(content, None).root_node() for the file of these items
FileTree(root, items) ==
    Node(root, 0, Len(FileSource(items)), ItemNodes(items, 0))

\* extract_rust_comments(content), tree being the tree of content
extract_rust_comments(content, tree) ==
    collect_comments(tree, content, rust_comment_types)

\* extract_python_comments(content), tree being the tree of content
extract_python_comments(content, tree) ==
    collect_comments(tree, content, python_comment_types)

(***************************************************************************)
(* The block grammar of tree-sitter-md, for documents of paragraphs, ATX    *)
(* headings, fenced code blocks and list items (an item may hold a fenced  *)
(* code block after its paragraph).  Blocks are separated by a blank line. *)
(***************************************************************************)
Block(kind, prose, code) == [kind |-> kind, prose |-> prose, code |-> code]

Fence == <<"tick", "tick", "tick">>

\* a fenced code block written with every line indented by indent spaces
FenceSource(code, indent) ==
    LET pad == [i \in 1..indent |-> "sp"]
    IN  Fence \o <<LF>> \o pad \o code \o <<LF>> \o pad \o Fence \o <<LF>>

ItemSource(prose, code) ==
    <<"-", "sp">> \o prose \o <<LF>>
    \o (IF code = <<>> THEN <<>>
        ELSE <<LF, "sp", "sp">> \o FenceSource(code, 2))

BlockSource(b) ==
    CASE b.kind = "paragraph" -> b.prose \o <<LF>>
      [] b.kind = "atx_heading" -> <<"#", "sp">> \o b.prose \o <<LF>>
      [] b.kind = "fenced_code_block" -> FenceSource(b.code, 0)
      [] b.kind = "list" -> ItemSource(b.prose, b.code)

ParagraphTree(prose, off) ==
    Node("paragraph", off, off + Len(prose) + 1,
         <<Node("inline", off, off + Len(prose), <<>>)>>)

FenceTree(code, indent, off) ==
    LET content == off + 4 + indent
        closing == content + Len(code) + 1 + indent
    IN  Node("fenced_code_block", off, closing + 4,
             <<Node("fenced_code_block_delimiter", off, off + 3, <<>>),
               Node("code_fence_content", content, content + Len(code) + 1, <<>>),
               Node("fenced_code_block_delimiter", closing, closing + 3, <<>>)>>)

ItemTree(prose, code, off) ==
    LET to == off + Len(ItemSource(prose, code))
        nested == IF code = <<>> THEN <<>>
                  ELSE <<FenceTree(code, 2, off + Len(prose) + 6)>>
    IN  Node("list", off, to,
             <<Node("list_item", off, to,
                    <<Node("list_marker_minus", off, off + 2, <<>>),
                      ParagraphTree(prose, off + 2)>> \o nested)>>)

BlockTree(b, off) ==
    CASE b.kind = "paragraph" -> ParagraphTree(b.prose, off)
      [] b.kind = "atx_heading" ->
            Node("atx_heading", off, off + Len(b.prose) + 3,
                 <<Node("atx_h1_marker", off, off + 1, <<>>),
                   Node("inline", off + 2, off + 2 + Len(b.prose), <<>>)>>)
      [] b.kind = "fenced_code_block" -> FenceTree(b.code, 0, off)
      [] b.kind = "list" -> ItemTree(b.prose, b.code, off)

\* the document's text: its blocks, a blank line between two of them
RECURSIVE DocumentSource(_)
DocumentSource(blocks) ==
    IF blocks = <<>> THEN <<>>
    ELSE BlockSource(Head(blocks))
         \o (IF Tail(blocks) = <<>> THEN <<>> ELSE <<LF>>)
         \o DocumentSource(Tail(blocks))

RECURSIVE BlockTrees(_, _)
BlockTrees(blocks, off) ==
    IF blocks = <<>> THEN <<>>
    ELSE <<BlockTree(Head(blocks), off)>>
         \o BlockTrees(Tail(blocks), off + Len(BlockSource(Head(blocks))) + 1)

\* the root node of the tree of a document made of these blocks
DocumentTree(blocks) ==
    LET to == Len(DocumentSource(blocks))
    IN  Node("document", 0, to,
             IF blocks = <<>> THEN <<>>
             ELSE <<Node("section", 0, to, BlockTrees(blocks, 0))>>)

Indent == <<"sp", "sp">>

JoinLines(ls) ==
    IF ls = <<>> THEN <<>>
    ELSE Head(ls) \o Flatten([i \in 1..(Len(ls) - 1) |-> <<LF>> \o ls[i + 1]])

\* how many lines ls begins with before a blank line or a line that starts
\* with one of stops
RECURSIVE LeadingLines(_, _)
LeadingLines(ls, stops) ==
    IF ls = <<>> \/ Head(ls) = <<>> \/ (\E st \in stops : StartsWith(Head(ls), st))
    THEN 0 ELSE 1 + LeadingLines(Tail(ls), stops)

\* the index of the first line of ls that is l, Len(ls) + 1 when none is
RECURSIVE ClosingLine(_, _)
ClosingLine(ls, l) ==
    IF ls = <<>> \/ Head(ls) = l THEN 1 ELSE 1 + ClosingLine(Tail(ls), l)

Unindent(l) == IF StartsWith(l, Indent) THEN SubSeq(l, 3, Len(l)) ELSE l

\* the blocks the grammar reads from the lines of a document
RECURSIVE ParseBlocks(_)
ParseBlocks(ls) ==
    IF ls = <<>> THEN <<>>
    ELSE
    LET l == Head(ls)
        rest == Tail(ls)
    IN  IF l = <<>> THEN ParseBlocks(rest)
        ELSE IF StartsWith(l, <<"#", "sp">>)
        THEN <<Block("atx_heading", SubSeq(l, 3, Len(l)), <<>>)>> \o ParseBlocks(rest)
        ELSE IF l = Fence
        THEN LET close == ClosingLine(rest, Fence)
             IN  <<Block("fenced_code_block", <<>>,
                         JoinLines(SubSeq(rest, 1, close - 1)))>>
                 \o ParseBlocks(SubSeq(rest, close + 1, Len(rest)))
        ELSE IF StartsWith(l, <<"-", "sp">>)
        THEN LET k == LeadingLines(rest, {<<"#">>, <<"-">>, Fence, Indent \o Fence})
                 prose == JoinLines(<<SubSeq(l, 3, Len(l))>> \o SubSeq(rest, 1, k))
                 after == SubSeq(rest, k + 1, Len(rest))
             IN  IF Len(after) >= 2 /\ after[1] = <<>> /\ after[2] = Indent \o Fence
                 THEN LET body == SubSeq(after, 3, Len(after))
                          close == ClosingLine(body, Indent \o Fence)
                          code == JoinLines([i \in 1..(close - 1) |-> Unindent(body[i])])
                      IN  <<Block("list", prose, code)>>
                          \o ParseBlocks(SubSeq(body, close + 1, Len(body)))
                 ELSE <<Block("list", prose, <<>>)>> \o ParseBlocks(after)
        ELSE LET k == LeadingLines(rest, {<<"#">>, <<"-">>, Fence})
             IN  <<Block("paragraph", JoinLines(<<l>> \o SubSeq(rest, 1, k)), <<>>)>>
                 \o ParseBlocks(SubSeq(rest, k + 1, Len(rest)))

\* parser.parse(content, None), then tree.root_node()
parse(content) == DocumentTree(ParseBlocks(Split(content, LF)))

\* extract_markdown(content): the spans when the parser returns a tree, the
\* error "Failed to parse Markdown" when it returns None
extract_markdown(content, parsed) ==
    IF parsed
    THEN [ok |-> TRUE, spans |-> collect_markdown_text(parse(content), content)]
    ELSE [ok |-> FALSE, spans |-> <<>>]

(***************************************************************************)
(* Config, FileType and the analysis MozukuServer publishes                *)
(***************************************************************************)
\* CheckerConfig::default()
DefaultCheckerConfig ==
    [ra_nuki |-> TRUE, i_nuki |-> TRUE, double_particle |-> TRUE,
     double_honorific |-> TRUE, redundant_expression |-> TRUE,
     consecutive_endings |-> TRUE, tari_parallel |-> TRUE,
     consecutive_no |-> TRUE]

\* An extension and a URI path are sequences of ASCII characters, each
\* written as the one-character string it is.
UpperCase == <<"A", "B", "C", "D", "E", "F", "G", "H", "I", "J", "K", "L", "M",
               "N", "O", "P", "Q", "R", "S", "T", "U", "V", "W", "X", "Y", "Z">>
LowerCase == <<"a", "b", "c", "d", "e", "f", "g", "h", "i", "j", "k", "l", "m",
               "n", "o", "p", "q", "r", "s", "t", "u", "v", "w", "x", "y", "z">>

\* char::to_lowercase on an ASCII character
LowerChar(ch) ==
    IF \E i \in 1..Len(UpperCase) : UpperCase[i] = ch
    THEN LowerCase[CHOOSE i \in 1..Len(UpperCase) : UpperCase[i] = ch]
    ELSE ch

\* str::to_lowercase on an extension
to_lowercase(ext) == [i \in 1..Len(ext) |-> LowerChar(ext[i])]

\* FileType::from_extension(ext)
from_extension(ext) ==
    LET e == to_lowercase(ext)
    IN  CASE e \in {<<"m", "d">>, <<"m", "a", "r", "k", "d", "o", "w", "n">>} -> "Markdown"
          [] e = <<"r", "s">> -> "Rust"
          [] e \in {<<"p", "y">>, <<"p", "y", "i">>} -> "Python"
          [] e \in {<<"t", "s">>, <<"t", "s", "x">>} -> "TypeScript"
          [] e \in {<<"j", "s">>, <<"j", "s", "x">>, <<"m", "j", "s">>,
                    <<"c", "j", "s">>} -> "JavaScript"
          [] e \in {<<"c">>, <<"h">>} -> "C"
          [] e \in {<<"c", "p", "p">>, <<"c", "c">>, <<"c", "x", "x">>,
                    <<"h", "p", "p">>, <<"h", "x", "x">>} -> "Cpp"
          [] e = <<"g", "o">> -> "Go"
          [] e \in {<<"t", "e", "x">>, <<"l", "a", "t", "e", "x">>} -> "LaTeX"
          [] OTHER -> "PlainText"

\* path.rsplit('.').next(): the text after the last '.', the whole path when
\* it has none; rsplit always yields one piece, so unwrap_or is never taken
LastPiece(path) ==
    LET dots == {i \in 1..Len(path) : path[i] = "."}
    IN  IF dots = {} THEN path
        ELSE SubSeq(path, (CHOOSE i \in dots : \A j \in dots : j <= i) + 1, Len(path))

\* detect_file_type(uri), given uri.path()
detect_file_type(path) == from_extension(LastPiece(path))

\* extractor.extract(content, file_type) for the file types read without a
\* programming-language grammar; parsed says whether the Markdown parser
\* returned a tree
extract(content, file_type, parsed) ==
    IF file_type = "Markdown"
    THEN extract_markdown(content, parsed)
    ELSE [ok |-> TRUE, spans |-> extract_plain_text(content)]

DocumentState(content, version, file_type) ==
    [content |-> content, version |-> version, file_type |-> file_type]

\* documents.get(uri) answering None
NoDocument == DocumentState(<<>>, -1, "None")

\* the column offset added on every line of the span
AdjustCharacterAlways(orig_line, character, span) == character + span.start_col

\* the column a span-local endpoint gets: span.start_col is added on the
\* first line of the span only
AdjustCharacter(orig_line, character, span) ==
    IF orig_line = 0 THEN character + span.start_col ELSE character

\* the adjustment of one diagnostic of a span to document coordinates
AdjustPosition(diag, span) ==
    LET orig_start_line == diag.range.start.line
        orig_end_line == diag.range.end.line
        start == [line |-> orig_start_line + span.start_line,
                  character |-> AdjustCharacter(orig_start_line,
                                                diag.range.start.character, span)]
        end == [line |-> orig_end_line + span.start_line,
                character |-> AdjustCharacter(orig_end_line,
                                              diag.range.end.character, span)]
    IN  [diag EXCEPT !.range = [start |-> start, end |-> end]]

\* checker.check(&span.text), each diagnostic adjusted (the tokenizer answers
\* Ok; its failure is covered by the rule engine's own state machine)
SpanDiagnostics(span) ==
    LET span_diagnostics == check(span.text, TRUE)
    IN  [i \in 1..Len(span_diagnostics) |-> AdjustPosition(span_diagnostics[i], span)]

\* a fallback that reports nothing
FallbackNothing(doc) == <<>>

\* the fallback when extract fails: the whole document is checked
FallbackDiagnostics(doc) == check(doc.content, TRUE)

\* the diagnostics analyze_document hands to publish_diagnostics for doc
AnalysisOf(doc, extracted) ==
    IF extracted.ok
    THEN Flatten([i \in 1..Len(extracted.spans) |-> SpanDiagnostics(extracted.spans[i])])
    ELSE FallbackDiagnostics(doc)

(***************************************************************************)
(* The rule engine as a state machine: one call of check per step          *)
(***************************************************************************)
MaxPhrases == 3
MaxSentences == 5

SeqsUpTo(S, n) == UNION {[1..k -> S] : k \in 0..n}

\* short phrases the texts handed to check are put together from
Phrases == {
    <<"ga">>, <<"hon", "no">>, <<"tabe">>, <<"re", "ru">>,
    <<"te", "ru">>, <<"o", "ssha", "ra">>, <<"re">>,
    <<"go", "ran", "ni", "na", "ra">>, <<"ko", "to", "ga", "de", "ki">>,
    <<"ta", "ri">>, <<"hashi", "ru">>, <<"na">>, <<LF>>
}

\* sentences, for texts of several sentences
Sentences == {
    <<"hon", "de", "su", Maru>>, <<"watashi", "ma", "su", Maru>>,
    <<"hon", Maru>>, <<"sp", Maru>>, <<LF, "hon", "de", "su", Maru>>
}

CheckInputs ==
    {Flatten(ps) : ps \in SeqsUpTo(Phrases, MaxPhrases)}
    \cup {Flatten(ps) : ps \in SeqsUpTo(Sentences, MaxSentences)}

PosIdle ==
    /\ pos_text = <<>>
    /\ pos_offset = 0
    /\ pos_result = <<>>

CheckIdle ==
    /\ text = <<>>
    /\ tokenizer_ok = TRUE
    /\ tokens = <<>>
    /\ diagnostics = <<>>
    /\ called = FALSE

QueryIdle ==
    /\ position = [line |-> 0, character |-> 0]
    /\ hover = <<>>
    /\ semantic_tokens = [panicked |-> FALSE, tokens |-> <<>>]

MdIdle ==
    /\ md_content = <<>>
    /\ md_tree = Node("document", 0, 0, <<>>)
    /\ md_result = "idle"
    /\ md_spans = <<>>

\* the server before MozukuServer::new
ServerIdle ==
    /\ config = DefaultCheckerConfig
    /\ documents = <<>>
    /\ tasks = {}
    /\ received = 0
    /\ published = <<>>
    /\ newest = <<>>

TypeIdle ==
    /\ type_call = "idle"
    /\ type_input = <<>>
    /\ type_result = "PlainText"

CheckInit == CheckIdle /\ PosIdle /\ QueryIdle /\ MdIdle /\ ServerIdle /\ TypeIdle

\* checker.check(input), the tokenizer answering Ok or Err; check keeps no
\* state between calls, so one call from the initial state covers every call
Check ==
    /\ ~called
    /\ \E input \in CheckInputs, ok \in BOOLEAN :
        /\ text' = input
        /\ tokenizer_ok' = ok
        /\ tokens' = tokenize(input, ok)
        /\ diagnostics' = check(input, ok)
        /\ called' = TRUE
        /\ UNCHANGED <<posVars, queryVars, mdVars, serverVars, typeVars>>

SpecCheck == CheckInit /\ [][Check]_vars

(***************************************************************************)
(* The rules on token sequences: one call of check per step, the tokenizer *)
(* returning the given words for the text they spell                       *)
(***************************************************************************)
MaxPairTokens == 3
MaxRuleTokens == 4
MaxNoTokens == 7
MaxLineTokens == 5

Conjunction == <<"setsu", "zoku", "shi">>
Adverb == <<"fuku", "shi">>

Hon == Word(<<"hon">>, Noun, Star, Star, <<"hon">>)
Ga == Word(<<"ga">>, Particle, Star, Star, <<"ga">>)

\* identical neighbours: target particles, a particle outside the list, and
\* the conjunction that is written like the particle
ParticleWords == {
    Ga,
    Word(<<"ga">>, Conjunction, Star, Star, <<"ga">>),
    Word(<<"ha">>, Particle, Star, Star, <<"ha">>),
    Word(<<"ka", "ra">>, Particle, Star, Star, <<"ka", "ra">>),
    Hon,
    Unknown(LF)
}

\* tari, verbs after it, and words that end in tari
TariWords == {
    Word(<<"ta", "ri">>, Particle, Star, Star, <<"ta", "ri">>),
    Word(<<"hashi", "ru">>, Verb, Godan, Kihon, <<"hashi", "ru">>),
    Word(<<"wa", "ta", "ri">>, Verb, Godan, Renyou, <<"wa", "ta", "ru">>),
    Word(<<"ba", "tsu", "ta", "ri">>, Adverb, Star, Star, <<"ba", "tsu", "ta", "ri">>),
    Hon
}

\* a noun, the particle no, and a particle that breaks a run
NoWords == {
    Hon,
    Word(<<"no">>, Particle, Star, Star, <<"no">>),
    Ga
}

\* koto ga followed by deki, by a form of dekiru, by kanou, or by neither
RedundantWords == {
    Word(<<"ko", "to">>, Noun, Star, Star, <<"ko", "to">>),
    Ga,
    Word(<<"de", "ki">>, Verb, Ichidan, Renyou, <<"de", "ki", "ru">>),
    Word(<<"de", "ki", "ru">>, Verb, Ichidan, Kihon, <<"de", "ki", "ru">>),
    Word(<<"ka", "nou">>, Noun, Star, Star, <<"ka", "nou">>)
}

ReVerb == Word(<<"re">>, Verb, Ichidan, Renyou, <<"re", "ru">>)
ReOther == Word(<<"re">>, AuxVerb, Star, Star, <<"re">>)

\* honorific stems (one on a noun) and the endings re and rare, as verbs and not
HonorificWords == {
    Word(<<"o", "ssha", "ra">>, Verb, Godan, Mizen, <<"o", "ssha", "ru">>),
    Word(<<"na", "sa", "ke">>, Noun, Star, Star, <<"na", "sa", "ke">>),
    ReVerb,
    ReOther,
    Word(<<"ra", "re">>, Verb, Ichidan, Renyou, <<"ra", "re", "ru">>)
}

\* the words of go-ran ni nara re, the ending as a verb and not
GoWords == {
    Word(<<"go", "ran">>, Noun, Star, Star, <<"go", "ran">>),
    Word(<<"ni">>, Particle, Star, Star, <<"ni">>),
    Word(<<"na", "ra">>, Verb, Godan, Mizen, <<"na", "ru">>),
    ReVerb,
    ReOther
}

\* ichidan verbs in reru, one of them with reru twice in its surface
RaNukiWords == {
    Word(<<"mi", "re", "ru">>, Verb, Ichidan, Kihon, <<"mi", "re", "ru">>),
    Word(<<"ku", "re", "ru", "re", "ru">>, Verb, Ichidan, Kihon,
         <<"ku", "re", "ru", "re", "ru">>),
    Word(<<"ra", "re", "ru">>, Verb, Ichidan, Kihon, <<"ra", "re", "ru">>),
    Word(<<"re", "ru">>, Verb, Ichidan, Kihon, <<"re", "ru">>),
    Word(<<"tabe">>, Verb, Ichidan, Renyou, <<"tabe", "ru">>)
}

\* a doubled particle on lines that end in LF or in CR LF
LineWords == {Ga, Hon, Unknown(CR), Unknown(LF)}

\* the text a sequence of words spells
Spell(words) == Flatten([i \in 1..Len(words) |-> words[i].surface])

\* checker.check(Spell(words)), lindera segmenting the text into words
CheckTokens(words) ==
    /\ ~called
    /\ text' = Spell(words)
    /\ tokenizer_ok' = TRUE
    /\ tokens' = TokenInfos(words, FirstOffset)
    /\ diagnostics' = run_checks(TokenInfos(words, FirstOffset), Spell(words))
    /\ called' = TRUE
    /\ UNCHANGED <<posVars, queryVars, mdVars, serverVars, typeVars>>

CheckParticles == \E words \in SeqsUpTo(ParticleWords, MaxPairTokens) : CheckTokens(words)
CheckTari == \E words \in SeqsUpTo(TariWords, MaxPairTokens) : CheckTokens(words)
CheckNo == \E words \in SeqsUpTo(NoWords, MaxNoTokens) : CheckTokens(words)
CheckRedundant == \E words \in SeqsUpTo(RedundantWords, MaxRuleTokens) : CheckTokens(words)
CheckHonorific == \E words \in SeqsUpTo(HonorificWords, MaxPairTokens) : CheckTokens(words)
CheckGo == \E words \in SeqsUpTo(GoWords, MaxRuleTokens) : CheckTokens(words)
CheckRaNuki == \E words \in SeqsUpTo(RaNukiWords, MaxPairTokens) : CheckTokens(words)
CheckLines == \E words \in SeqsUpTo(LineWords, MaxLineTokens) : CheckTokens(words)

RulesNext ==
    \/ CheckParticles
    \/ CheckTari
    \/ CheckNo
    \/ CheckRedundant
    \/ CheckHonorific
    \/ CheckGo
    \/ CheckRaNuki
    \/ CheckLines

SpecRules == CheckInit /\ [][RulesNext]_vars

(***************************************************************************)
(* The coordinate mapper as a state machine: one call per step             *)
(***************************************************************************)
MaxTextLen == 4

PositionTexts == {Flatten(cs) : cs \in SeqsUpTo({<<"a">>, <<LF>>, <<CR>>}, MaxTextLen)}

PosInit == CheckIdle /\ PosIdle /\ QueryIdle /\ MdIdle /\ ServerIdle /\ TypeIdle

\* char_offset_to_position(&text.lines().collect(), offset)
Locate ==
    /\ pos_result = <<>>
    /\ \E s \in PositionTexts :
       \E offset \in 0..(Len(s) + 2) :
        /\ pos_text' = s
        /\ pos_offset' = offset
        /\ pos_result' = char_offset_to_position(Lines(s), offset)
        /\ UNCHANGED <<checkVars, queryVars, mdVars, serverVars, typeVars>>

SpecPosition == PosInit /\ [][Locate]_vars

(***************************************************************************)
(* The queries of the analyzer as state machines: one call per step        *)
(***************************************************************************)
MaxQueryPhrases == 3

\* texts of several lines, with LF and with CR LF line ends
QueryPhrases == {<<"hon">>, <<"ka", "ra">>, <<"tabe", "re", "ru">>, <<LF>>, <<CR, LF>>}

QueryTexts == {Flatten(ps) : ps \in SeqsUpTo(QueryPhrases, MaxQueryPhrases)}

QueryInit == CheckIdle /\ PosIdle /\ QueryIdle /\ MdIdle /\ ServerIdle /\ TypeIdle

\* analyzer.get_hover_info(input, Position { line, character })
Hover ==
    /\ ~called
    /\ \E input \in QueryTexts, ok \in BOOLEAN :
       \E line \in 0..(Len(Lines(input)) + 1), character \in 0..(Len(input) + 1) :
        /\ text' = input
        /\ tokenizer_ok' = ok
        /\ tokens' = tokenize(input, ok)
        /\ called' = TRUE
        /\ position' = [line |-> line, character |-> character]
        /\ hover' = get_hover_info(input, ok, [line |-> line, character |-> character])
        /\ UNCHANGED <<diagnostics, semantic_tokens, posVars, mdVars, serverVars, typeVars>>

SpecHover == QueryInit /\ [][Hover]_vars

\* analyzer.get_semantic_tokens(input), in a build with or without overflow
\* checks
SemanticTokens ==
    /\ ~called
    /\ \E input \in QueryTexts, ok \in BOOLEAN, overflow_checks \in BOOLEAN :
        /\ text' = input
        /\ tokenizer_ok' = ok
        /\ tokens' = tokenize(input, ok)
        /\ called' = TRUE
        /\ semantic_tokens' = get_semantic_tokens(input, ok, overflow_checks)
        /\ UNCHANGED <<diagnostics, position, hover, posVars, mdVars, serverVars, typeVars>>

SpecSemantic == QueryInit /\ [][SemanticTokens]_vars

(***************************************************************************)
(* The Markdown extractor as a state machine: one call per step            *)
(***************************************************************************)
MaxBlocks == 3

Prose == <<"hon", "de", "su", Maru>>
Code == <<"x", "=", "a">>

Blocks == {
    Block("paragraph", Prose, <<>>),
    Block("paragraph", <<"watashi", "ga", "ga">>, <<>>),
    Block("atx_heading", <<"hon">>, <<>>),
    Block("fenced_code_block", <<>>, Code),
    Block("list", <<"hon", "no">>, <<>>),
    Block("list", <<"hon", "no">>, Code)
}

MdDocuments == SeqsUpTo(Blocks, MaxBlocks)

MdInit == CheckIdle /\ PosIdle /\ QueryIdle /\ MdIdle /\ ServerIdle /\ TypeIdle

\* extract(content, FileType::Markdown), the parser returning a tree or None
ExtractMarkdown ==
    /\ md_result = "idle"
    /\ \E blocks \in MdDocuments, parsed \in BOOLEAN :
        LET content == DocumentSource(blocks)
            extracted == extract_markdown(content, parsed)
        IN  /\ md_content' = content
            /\ md_tree' = IF parsed THEN parse(content) ELSE md_tree
            /\ md_result' = IF extracted.ok THEN "ok" ELSE "err"
            /\ md_spans' = extracted.spans
            /\ UNCHANGED <<checkVars, posVars, queryVars, serverVars, typeVars>>

SpecMarkdown == MdInit /\ [][ExtractMarkdown]_vars

(***************************************************************************)
(* The plain-text extractor as a state machine: one call per step          *)
(***************************************************************************)
MaxPlainPieces == 4

\* kanji (three bytes each), an ASCII letter, and both kinds of line end
PlainPieces == {<<"hon">>, <<"a">>, <<LF>>, <<CR, LF>>}

PlainContents == {Flatten(ps) : ps \in SeqsUpTo(PlainPieces, MaxPlainPieces)}

\* the extensions of a text file, a LaTeX file and a file of no known type
PlainExtensions == {<<"t", "x", "t">>, <<"t", "e", "x">>, <<"l", "o", "g">>}

\* extract(content, file_type) for a file type that is read as plain text
ExtractPlain ==
    /\ md_result = "idle"
    /\ \E content \in PlainContents, ext \in PlainExtensions :
        LET extracted == extract(content, from_extension(ext), TRUE)
        IN  /\ md_content' = content
            /\ md_result' = IF extracted.ok THEN "ok" ELSE "err"
            /\ md_spans' = extracted.spans
            /\ UNCHANGED <<md_tree, checkVars, posVars, queryVars, serverVars, typeVars>>

SpecPlain == MdInit /\ [][ExtractPlain]_vars

(***************************************************************************)
(* extract(content, FileType::Rust) on files of comments and functions     *)
(***************************************************************************)
MaxItems == 2

\* what a comment may hold between its markers
CommentBodies ==
    {<<>>, <<"sp">>, <<"sp", "hon">>, <<"hon", "sp">>,
     <<LF, "sp", "*", "sp", "hon", LF, "sp">>}

LineBodies == {b \in CommentBodies : \A i \in 1..Len(b) : b[i] # LF}

LineComments ==
    {Comment("line_comment", Slashes(n) \o body) : n \in 2..4, body \in LineBodies}
    \cup {Comment("line_comment", <<"/", "/", "!">> \o body) : body \in LineBodies}

BlockComments ==
    {Comment("block_comment", opener \o body \o <<"*", "/">>) :
        opener \in {<<"/", "*">>, <<"/", "*", "*">>, <<"/", "*", "!">>},
        body \in CommentBodies}

RustItems ==
    LineComments \cup BlockComments
    \cup {Function(c) : c \in {Comment("line_comment", <<"/", "/", "sp", "hon">>),
                               Comment("block_comment", <<"/", "*", "hon", "*", "/">>),
                               Literal(<<"dq", "hon", "dq">>)}}

RustFiles == SeqsUpTo(RustItems, MaxItems)

\* extract(content, FileType::Rust)
ExtractRust ==
    /\ md_result = "idle"
    /\ \E items \in RustFiles :
        LET extracted == extract_rust_comments(FileSource(items), FileTree("source_file", items))
        IN  /\ md_content' = FileSource(items)
            /\ md_tree' = FileTree("source_file", items)
            /\ md_result' = IF extracted.panicked THEN "panic" ELSE "ok"
            /\ md_spans' = extracted.spans
            /\ UNCHANGED <<checkVars, posVars, queryVars, serverVars, typeVars>>

SpecRust == MdInit /\ [][ExtractRust]_vars

(***************************************************************************)
(* extract(content, FileType::Python) on files of comments and strings     *)
(***************************************************************************)
\* what a string may hold between its quotes
StringBodies == {<<>>, <<"hon">>, <<"sp", "hon", "sp">>, <<LF, "sp", "hon", LF>>}

\* docstrings with either quote, ordinary strings, a raw docstring, and a
\* docstring the end of the buffer leaves open
Strings ==
    {Comment("string", q \o body \o q) : q \in {Quotes, Apostrophes}, body \in StringBodies}
    \cup {Comment("string", q \o body \o q) :
            q \in {<<"dq">>, <<"sq">>},
            body \in {b \in StringBodies : \A i \in 1..Len(b) : b[i] # LF}}
    \cup {Comment("string", <<"r">> \o Quotes \o <<"hon">> \o Quotes)}

OpenStrings == {Comment("string", Quotes), Comment("string", Apostrophes)}

PythonItems ==
    Strings \cup {Attribute(s) : s \in Strings}
    \cup {Comment("comment", <<"#", "sp", "hon">>), Comment("comment", <<"#">>)}

\* an open docstring reaches to the end of the file
PythonFiles ==
    SeqsUpTo(PythonItems, MaxItems)
    \cup {Append(items, Attribute(s)) :
            items \in SeqsUpTo(PythonItems, MaxItems - 1), s \in OpenStrings}

\* extract(content, FileType::Python)
ExtractPython ==
    /\ md_result = "idle"
    /\ \E items \in PythonFiles :
        LET extracted == extract_python_comments(FileSource(items),
                                                 FileTree("module", items))
        IN  /\ md_content' = FileSource(items)
            /\ md_tree' = FileTree("module", items)
            /\ md_result' = IF extracted.panicked THEN "panic" ELSE "ok"
            /\ md_spans' = extracted.spans
            /\ UNCHANGED <<checkVars, posVars, queryVars, serverVars, typeVars>>

SpecPython == MdInit /\ [][ExtractPython]_vars

(***************************************************************************)
(* FileType::from_extension on extensions in any case, and                 *)
(* detect_file_type on URI paths.  A path is uri.path(): that of a file:   *)
(* URI starts with '/', that of a URI such as untitled:notes is the text   *)
(* after the scheme and has no '/'.                                        *)
(***************************************************************************)
MaxPathPieces == 3

\* the match arms of from_extension
RecognizedExtensions ==
    {<<"m", "d">>, <<"m", "a", "r", "k", "d", "o", "w", "n">>, <<"r", "s">>,
     <<"p", "y">>, <<"p", "y", "i">>, <<"t", "s">>, <<"t", "s", "x">>,
     <<"j", "s">>, <<"j", "s", "x">>, <<"m", "j", "s">>, <<"c", "j", "s">>,
     <<"c">>, <<"h">>, <<"c", "p", "p">>, <<"c", "c">>, <<"c", "x", "x">>,
     <<"h", "p", "p">>, <<"h", "x", "x">>, <<"g", "o">>, <<"t", "e", "x">>,
     <<"l", "a", "t", "e", "x">>}

UpperChar(ch) ==
    IF \E i \in 1..Len(LowerCase) : LowerCase[i] = ch
    THEN UpperCase[CHOOSE i \in 1..Len(LowerCase) : LowerCase[i] = ch]
    ELSE ch

\* each recognized extension in lower case, in upper case, capitalized and
\* with only its last letter in upper case, and extensions of no known type
Extensions ==
    RecognizedExtensions
    \cup {[i \in 1..Len(e) |-> UpperChar(e[i])] : e \in RecognizedExtensions}
    \cup {[i \in 1..Len(e) |-> IF i = 1 THEN UpperChar(e[i]) ELSE e[i]] :
            e \in RecognizedExtensions}
    \cup {[i \in 1..Len(e) |-> IF i = Len(e) THEN UpperChar(e[i]) ELSE e[i]] :
            e \in RecognizedExtensions}
    \cup {<<>>, <<"t", "x", "t">>, <<"u", "n", "k", "n", "o", "w", "n">>,
          <<"m">>, <<"m", "d", "x">>, <<"r", "s", "t">>}

\* the pieces paths are made of
PathPieces ==
    {<<"/">>, <<".">>, <<"a">>, <<"m", "d">>, <<"M", "d">>, <<"g", "o">>,
     <<"R", "S">>, <<"t", "x", "t">>}

Paths == {Flatten(ps) : ps \in SeqsUpTo(PathPieces, MaxPathPieces)}

\* FileType::from_extension(ext)
FromExtension ==
    /\ type_call = "idle"
    /\ \E ext \in Extensions :
        /\ type_call' = "from_extension"
        /\ type_input' = ext
        /\ type_result' = from_extension(ext)
    /\ UNCHANGED <<checkVars, posVars, queryVars, mdVars, serverVars>>

\* MozukuServer::detect_file_type(uri)
DetectFileType ==
    /\ type_call = "idle"
    /\ \E path \in Paths :
        /\ type_call' = "detect_file_type"
        /\ type_input' = path
        /\ type_result' = detect_file_type(path)
    /\ UNCHANGED <<checkVars, posVars, queryVars, mdVars, serverVars>>

FileTypeNext == FromExtension \/ DetectFileType

SpecFileType == CheckInit /\ [][FileTypeNext]_vars

(***************************************************************************)
(* MozukuServer: the document handlers.  tower-lsp runs the handlers of    *)
(* several notifications concurrently; a handler is a task that moves from *)
(* one .await to the next.  documents is behind a tokio RwLock: a write    *)
(* section (lock, insert or remove, unlock) has no .await inside and is    *)
(* one step, and it waits while any analysis holds the read guard, which   *)
(* analyze_document keeps from documents.read() until publish_diagnostics  *)
(* has returned.                                                           *)
(***************************************************************************)
MaxRequests == 2
MaxInFlight == 2
MaxVersion == 2

\* the path of file:///a.md
Uris == {<<"/", "a", ".", "m", "d">>}
Versions == 1..MaxVersion

\* a list item whose paragraph has two lines, and a paragraph
Contents == {
    DocumentSource(<<Block("list", <<"ga", "ga", LF, "sp", "sp",
                                     "tabe", "te", "ru", "ga", "ga">>, <<>>)>>),
    DocumentSource(<<Block("paragraph", <<"watashi", "ga", "ga">>, <<>>)>>)
}

\* the checker sections mozuku.toml may hold
Configs == {
    DefaultCheckerConfig,
    [DefaultCheckerConfig EXCEPT !.i_nuki = FALSE, !.consecutive_no = FALSE]
}

\* what analyze_document extracts and hands to publish_diagnostics, for each
\* file type and text a stored document may have and each answer of the
\* parser; the analysis depends on nothing else, and is worked out here once
Analyses ==
    [file_type \in {detect_file_type(uri) : uri \in Uris} |->
     [content \in Contents |-> [parsed \in BOOLEAN |->
        LET doc == DocumentState(content, 0, file_type)
            extracted == extract(doc.content, doc.file_type, parsed)
        IN  [extract_ok |-> extracted.ok,
             diagnostics |-> AnalysisOf(doc, extracted)]]]]

Task(id, op, uri, content, version, pc) ==
    [id |-> id, op |-> op, uri |-> uri, content |-> content,
     version |-> version, pc |-> pc,
     extract_ok |-> TRUE, diagnostics |-> <<>>, doc_version |-> 0]

\* the tasks that hold the read guard of documents
ReadGuards == {t \in tasks : t.pc = "publish"}

\* MozukuServer::new(client)
ServerInit ==
    /\ CheckIdle /\ PosIdle /\ QueryIdle /\ MdIdle /\ TypeIdle
    /\ config \in Configs
    /\ documents = [uri \in Uris |-> NoDocument]
    /\ tasks = {}
    /\ received = 0
    /\ published = <<>>
    /\ newest = [uri \in Uris |-> 0]

\* a notification arrives and its handler starts, up to its first .await
Receive(op, uri, content, version, pc) ==
    /\ received < MaxRequests
    /\ Cardinality(tasks) < MaxInFlight
    /\ received' = received + 1
    /\ tasks' = tasks \cup {Task(received + 1, op, uri, content, version, pc)}
    /\ UNCHANGED <<config, documents, published, newest, checkVars, posVars, queryVars, mdVars, typeVars>>

DidOpen(uri, content, version) ==
    Receive("did_open", uri, content, version, "write")

\* did_change stores the text of the last change; with no change it returns
DidChange(uri, content_changes, version) ==
    IF content_changes = <<>>
    THEN /\ received < MaxRequests
         /\ received' = received + 1
         /\ UNCHANGED <<config, documents, tasks, published, newest,
                        checkVars, posVars, queryVars, mdVars, typeVars>>
    ELSE Receive("did_change", uri, content_changes[Len(content_changes)],
                 version, "write")

DidSave(uri) == Receive("did_save", uri, <<>>, 0, "read")

DidClose(uri) == Receive("did_close", uri, <<>>, 0, "remove")

\* an insert that does not wait for the read guards to be dropped
InsertUnderReaders(t) ==
    /\ t.pc = "write"
    /\ documents' = [documents EXCEPT ![t.uri] =
                        DocumentState(t.content, t.version, detect_file_type(t.uri))]
    /\ newest' = [newest EXCEPT ![t.uri] = Max(@, t.version)]
    /\ tasks' = (tasks \ {t}) \cup {[t EXCEPT !.pc = "read"]}
    /\ UNCHANGED <<config, received, published, checkVars, posVars, queryVars, mdVars, typeVars>>

\* did_open, did_change: documents.write().await, insert, unlock
Insert(t) ==
    /\ t.pc = "write"
    /\ ReadGuards = {}
    /\ documents' = [documents EXCEPT ![t.uri] =
                        DocumentState(t.content, t.version, detect_file_type(t.uri))]
    /\ newest' = [newest EXCEPT ![t.uri] = Max(@, t.version)]
    /\ tasks' = (tasks \ {t}) \cup {[t EXCEPT !.pc = "read"]}
    /\ UNCHANGED <<config, received, published, checkVars, posVars, queryVars, mdVars, typeVars>>

\* did_close: documents.write().await, remove, unlock
Remove(t) ==
    /\ t.pc = "remove"
    /\ ReadGuards = {}
    /\ documents' = [documents EXCEPT ![t.uri] = NoDocument]
    /\ newest' = [newest EXCEPT ![t.uri] = 0]
    /\ tasks' = tasks \ {t}
    /\ UNCHANGED <<config, received, published, checkVars, posVars, queryVars, mdVars, typeVars>>

\* analyze_document, from documents.read().await to the call of
\* publish_diagnostics; with no state stored for the uri it returns
Analyze(t) ==
    /\ t.pc = "read"
    /\ IF documents[t.uri] = NoDocument
       THEN tasks' = tasks \ {t}
       ELSE \E parsed \in BOOLEAN :
            LET doc == documents[t.uri]
                analysis == Analyses[doc.file_type][doc.content][parsed]
            IN  tasks' = (tasks \ {t}) \cup
                         {[t EXCEPT !.pc = "publish",
                                    !.extract_ok = analysis.extract_ok,
                                    !.diagnostics = analysis.diagnostics,
                                    !.doc_version = doc.version]}
    /\ UNCHANGED <<config, documents, received, published, newest,
                   checkVars, posVars, queryVars, mdVars, typeVars>>

\* client.publish_diagnostics(uri, diagnostics, Some(doc.version)).await
\* returns; the read guard is dropped and the handler ends
Publish(t) ==
    /\ t.pc = "publish"
    /\ published' = <<[uri |-> t.uri, diagnostics |-> t.diagnostics,
                       version |-> t.doc_version]>>
    /\ tasks' = tasks \ {t}
    /\ UNCHANGED <<config, documents, received, newest, checkVars, posVars, queryVars, mdVars, typeVars>>

ServerNext ==
    \/ \E uri \in Uris, content \in Contents, version \in Versions :
            DidOpen(uri, content, version)
    \/ \E uri \in Uris, content_changes \in SeqsUpTo(Contents, 2), version \in Versions :
            DidChange(uri, content_changes, version)
    \/ \E uri \in Uris : DidSave(uri)
    \/ \E uri \in Uris : DidClose(uri)
    \/ \E t \in tasks : Insert(t)
    \/ \E t \in tasks : Remove(t)
    \/ \E t \in tasks : Analyze(t)
    \/ \E t \in tasks : Publish(t)

SpecServer == ServerInit /\ [][ServerNext]_vars

(***************************************************************************)
(* Properties of the tokenizer adapter and of the rule engine              *)
(***************************************************************************)
\* p before q, as (line, character) positions
PosLess(p, q) ==
    p.line < q.line \/ (p.line = q.line /\ p.character < q.character)

\* two ranges share a stretch of text
Overlap(r1, r2) == PosLess(r1.start, r2.end) /\ PosLess(r2.start, r1.end)

\* C1: no two diagnostics of check(text) with the same code have overlapping
\* ranges
C1_NoOverlapWithinRule ==
    \A i, j \in 1..Len(diagnostics) :
        (i < j /\ diagnostics[i].code = diagnostics[j].code)
            => ~Overlap(diagnostics[i].range, diagnostics[j].range)

\* the sentences check_consecutive_sentence_endings looks at
SentencesOf(s) == SelectSeq(Split(s, Maru), LAMBDA x : x # <<>>)

\* sentences a..b all end with one recognised ending, and no neighbour does
MaximalRun(sentences, a, b) ==
    LET e == EndingOf(Trim(sentences[a]))
    IN  /\ a <= b
        /\ e # <<>>
        /\ \A k \in a..b : EndingOf(Trim(sentences[k])) = e
        /\ (a > 1 => EndingOf(Trim(sentences[a - 1])) # e)
        /\ (b < Len(sentences) => EndingOf(Trim(sentences[b + 1])) # e)

\* the consecutive-endings diagnostics reported at sentences a..b of a
\* one-line text (a report at sentence k sits at column SumLengths(k) - 3)
EndingsReportedIn(s, a, b) ==
    {n \in 1..Len(diagnostics) :
        /\ diagnostics[n].code = "consecutive-endings"
        /\ \E k \in a..b :
              diagnostics[n].range.start =
                  [line |-> 0,
                   character |-> SaturatingSub(SumLengths(SentencesOf(s), k), 3)]}

\* C3: a maximal run of k >= 3 sentences with the same recognised ending gets
\* exactly one consecutive-endings diagnostic, whatever k (stated for one-line
\* texts without whitespace-only sentences)
C3_OneDiagnosticPerRun ==
    (/\ called
     /\ tokenizer_ok
     /\ \A n \in 1..Len(text) : text[n] # LF
     /\ \A k \in 1..Len(SentencesOf(text)) : Trim(SentencesOf(text)[k]) # <<>>)
    => \A a, b \in 1..Len(SentencesOf(text)) :
          (MaximalRun(SentencesOf(text), a, b) /\ b - a + 1 >= 3)
              => Cardinality(EndingsReportedIn(text, a, b)) = 1

\* C4: when the tokenizer yields no tokens, check returns no diagnostics
C4_NoTokensNoDiagnostics ==
    (called /\ tokens = <<>>) => diagnostics = <<>>

\* C6: the first token starts at 0, char_length is the surface's number of
\* code points, and each token starts where the previous one ends
C6_TokenOffsets ==
    called =>
        /\ (tokens # <<>> => tokens[1].char_offset = 0)
        /\ \A i \in 1..Len(tokens) : tokens[i].char_length = Len(tokens[i].surface)
        /\ \A i \in 1..(Len(tokens) - 1) :
              tokens[i + 1].char_offset
                  = tokens[i].char_offset + tokens[i].char_length

\* three or more tokens, surfaces of different lengths among them
C6_Witness ==
    /\ called
    /\ Len(tokens) >= 3
    /\ tokens[1].char_length >= 2
    /\ tokens[2].char_length = 1
    /\ tokens[3].char_offset = tokens[1].char_length + 1

\* the position of offset in s: the line feeds before it, and the code points
\* since the last of them
TruePosition(s, offset) ==
    LET feeds == {k \in 1..offset : s[k] = LF}
        last == IF feeds = {} THEN 0 ELSE CHOOSE k \in feeds : \A m \in feeds : m <= k
    IN  <<Cardinality(feeds), offset - last>>

\* C5: offsets 0..length map to their (line, column), the length itself to the
\* end of the text; larger offsets map to (0, 0)
C5_PositionOfOffset ==
    pos_result # <<>> =>
        pos_result = IF pos_offset <= Len(pos_text)
                     THEN TruePosition(pos_text, pos_offset)
                     ELSE <<0, 0>>

(***************************************************************************)
(* Properties of the Markdown extractor                                    *)
(***************************************************************************)
RECURSIVE NodesOf(_)
\* a node and everything below it
NodesOf(node) ==
    {node} \cup UNION {NodesOf(node.children[i]) : i \in 1..Len(node.children)}

\* the code a skipped node holds: the text of its code_fence_content
CodeIn(node, source) ==
    {Trim(NodeText(c, source)) : c \in {n \in NodesOf(node) : n.kind = "code_fence_content"}}

\* C2: after a Markdown extraction that succeeded, the code inside any node of a
\* skipped kind (a fenced code block, wherever it sits in the tree) is not
\* contained in the text of any emitted span.
C2_NoCodeInSpans ==
    md_result = "ok" =>
        \A n \in NodesOf(md_tree) :
            n.kind \in skip_types =>
                \A code \in CodeIn(n, md_content) :
                    \A i \in 1..Len(md_spans) : ~Contains(md_spans[i].text, code)

(***************************************************************************)
(* Properties of the server                                                *)
(***************************************************************************)
\* the ranges of a list of diagnostics
RangesOf(ds) == [i \in 1..Len(ds) |-> ds[i].range]

\* a span-local position seen from the document: the line moves down by the
\* start line of the span, the column moves right by the start column of the
\* span when the position is on the first line of the span
ProjectedPosition(pos, S) ==
    [line |-> pos.line + S.start_line,
     character |-> IF pos.line = 0 THEN pos.character + S.start_col
                   ELSE pos.character]

ProjectedRange(range, S) ==
    [start |-> ProjectedPosition(range.start, S),
     end |-> ProjectedPosition(range.end, S)]

\* the projected ranges of every diagnostic of every span of a document
ProjectedRanges(doc) ==
    LET spans == extract(doc.content, doc.file_type, TRUE).spans
    IN  Flatten([k \in 1..Len(spans) |->
                    LET D == check(spans[k].text, TRUE)
                    IN  [i \in 1..Len(D) |-> ProjectedRange(D[i].range, spans[k])]])

\* the projected ranges for each document the server may store
ProjectedRangesOf ==
    [file_type \in {detect_file_type(uri) : uri \in Uris} |->
     [content \in Contents |->
        ProjectedRanges(DocumentState(content, 0, file_type))]]

\* check of the whole text, for each text the server may store
CheckOf == [content \in Contents |-> check(content, TRUE)]

RuleEnabled(code) ==
    CASE code = "ra-nuki" -> config.ra_nuki
      [] code = "i-nuki" -> config.i_nuki
      [] code = "double-particle" -> config.double_particle
      [] code = "double-honorific" -> config.double_honorific
      [] code = "redundant-expression" -> config.redundant_expression
      [] code = "consecutive-endings" -> config.consecutive_endings
      [] code = "incomplete-tari" -> config.tari_parallel
      [] code = "consecutive-no" -> config.consecutive_no
      [] OTHER -> TRUE

\* C8: no published diagnostic comes from a rule that the configuration the
\* server was built from disables.
C8_DisabledRulesSilent ==
    published # <<>> =>
        \A i \in 1..Len(published[1].diagnostics) :
            RuleEnabled(published[1].diagnostics[i].code)

\* C9: a publication never carries a version older than the newest version
\* stored for the document so far.
C9_NoOlderVersionPublished ==
    [][\A t \in tasks :
          Publish(t) => published'[1].version >= newest[t.uri]]_vars

\* C10: when the extraction of an analysis failed, the analysis publishes
\* check of the whole stored content, unprojected, with the stored version,
\* and then ends, so that it publishes once.
C10_FallbackOnExtractError ==
    [][\A t \in tasks :
          (Publish(t) /\ ~t.extract_ok) =>
              /\ published'[1] = [uri |-> t.uri,
                                  diagnostics |-> CheckOf[documents[t.uri].content],
                                  version |-> documents[t.uri].version]
              /\ \A u \in tasks' : u.id # t.id]_vars

\* a publication of the fallback that the projected analysis would not give
C10_Witness ==
    /\ published # <<>>
    /\ LET doc == documents[published[1].uri]
       IN  /\ doc # NoDocument
           /\ doc.version = published[1].version
           /\ published[1].diagnostics = check(doc.content, TRUE)
           /\ published[1].diagnostics #
                  AnalysisOf(doc, extract(doc.content, doc.file_type, TRUE))

(***************************************************************************)
(* Properties of the rules, one by one                                     *)
(***************************************************************************)
\* the diagnostics with one code, each as its range and severity
Reports(code) ==
    LET ds == SelectSeq(diagnostics, LAMBDA d : d.code = code)
    IN  [n \in 1..Len(ds) |-> [range |-> ds[n].range, severity |-> ds[n].severity]]

RECURSIVE Ascending(_)
\* a set of numbers as the sequence of its members, smallest first
Ascending(S) ==
    IF S = {} THEN <<>>
    ELSE LET m == CHOOSE x \in S : \A y \in S : x <= y
         IN  <<m>> \o Ascending(S \ {m})

\* how often x occurs in a sequence, and two sequences equal up to order
Occurrences(seq, x) == Cardinality({n \in 1..Len(seq) : seq[n] = x})
SameUpToOrder(s1, s2) ==
    /\ Len(s1) = Len(s2)
    /\ \A n \in 1..Len(s1) : Occurrences(s1, s1[n]) = Occurrences(s2, s1[n])

\* the range from the start of token i to the end of token j, both offsets
\* put through the coordinate mapper
TokenSpan(i, j) ==
    [start |-> Position(char_offset_to_position(Lines(text), tokens[i].char_offset)),
     end |-> Position(char_offset_to_position(
                 Lines(text), tokens[j].char_offset + tokens[j].char_length))]

Codes == {"ra-nuki", "i-nuki", "double-particle", "redundant-na",
          "double-honorific", "redundant-expression", "consecutive-endings",
          "incomplete-tari", "consecutive-no"}

SeverityOf(code) ==
    CASE code \in {"ra-nuki", "double-honorific", "incomplete-tari"} -> "WARNING"
      [] code \in {"double-particle", "redundant-na"} -> "ERROR"
      [] OTHER -> "HINT"

\* C11: every diagnostic check returns has source "mozuku", one of the nine
\* codes, and the severity fixed for its code
C11_DiagnosticContract ==
    \A n \in 1..Len(diagnostics) :
        /\ diagnostics[n].source = "mozuku"
        /\ diagnostics[n].code \in Codes
        /\ diagnostics[n].severity = SeverityOf(diagnostics[n].code)

\* one call that returned three or more diagnostics, a Hint and a Warning
\* among them
C11_Witness ==
    /\ called
    /\ Len(diagnostics) >= 3
    /\ \E n \in 1..Len(diagnostics) : diagnostics[n].severity = "HINT"
    /\ \E n \in 1..Len(diagnostics) : diagnostics[n].severity = "WARNING"

\* the adjacent pairs (i, i + 1) of identical particles from the list
DoubleParticlePairs ==
    {i \in 1..(Len(tokens) - 1) :
        /\ tokens[i].pos = <<"jo", "shi">>
        /\ tokens[i + 1].pos = <<"jo", "shi">>
        /\ tokens[i].surface = tokens[i + 1].surface
        /\ tokens[i].surface \in
              {<<"ga">>, <<"wo">>, <<"ni">>, <<"he">>, <<"de">>, <<"to">>,
               <<"ka", "ra">>, <<"ma", "de">>, <<"yo", "ri">>}}

\* C12: the double-particle diagnostics are exactly one Error per adjacent
\* pair of identical particles from the list, ranged from the start of the
\* first token to the end of the second; without such a pair there is none
C12_DoubleParticleExactly ==
    called =>
        Reports("double-particle") =
            [k \in 1..Cardinality(DoubleParticlePairs) |->
                [range |-> TokenSpan(Ascending(DoubleParticlePairs)[k],
                                     Ascending(DoubleParticlePairs)[k] + 1),
                 severity |-> "ERROR"]]

\* a pair on the second line of the text, reported once
C12_Witness ==
    /\ called
    /\ DoubleParticlePairs = {2}
    /\ tokens[1].surface = <<LF>>
    /\ Len(Reports("double-particle")) = 1
    /\ Reports("double-particle")[1].range.start = [line |-> 1, character |-> 0]

\* the tokens written tari
TariTokens == {i \in 1..Len(tokens) : tokens[i].surface = <<"ta", "ri">>}

\* one tari, a verb not ending in tari after it, nothing ending in tari after it
IncompleteTari ==
    /\ Cardinality(TariTokens) = 1
    /\ LET t == CHOOSE i \in TariTokens : TRUE
       IN  /\ \E j \in (t + 1)..Len(tokens) :
                 /\ tokens[j].pos = <<"dou", "shi">>
                 /\ ~EndsWith(tokens[j].surface, <<"ta", "ri">>)
           /\ ~\E j \in (t + 1)..Len(tokens) :
                 EndsWith(tokens[j].surface, <<"ta", "ri">>)

\* C13: there is one incomplete-tari Warning, on the tari token, exactly when
\* one token is tari, a verb not ending in tari follows and no later surface
\* is or ends in tari; otherwise there is none
C13_TariExactly ==
    called =>
        Reports("incomplete-tari") =
            IF IncompleteTari
            THEN <<[range |-> TokenSpan(CHOOSE i \in TariTokens : TRUE,
                                        CHOOSE i \in TariTokens : TRUE),
                    severity |-> "WARNING"]>>
            ELSE <<>>

\* tari after another word, a verb behind it: reported at the tari token
C13_Witness ==
    /\ called
    /\ IncompleteTari
    /\ TariTokens = {2}
    /\ Len(Reports("incomplete-tari")) = 1

\* the particles no that stand right after a noun
NoAfterNoun ==
    {i \in 2..Len(tokens) :
        /\ tokens[i].surface = <<"no">>
        /\ tokens[i].pos = <<"jo", "shi">>
        /\ tokens[i - 1].pos = <<"mei", "shi">>}

\* from a to b every token is such a no or a noun
Unbroken(a, b) ==
    \A k \in a..b : k \in NoAfterNoun \/ tokens[k].pos = <<"mei", "shi">>

\* the maximal runs, each as (first no, last no)
NoRuns ==
    {r \in NoAfterNoun \X NoAfterNoun :
        /\ r[1] <= r[2]
        /\ Unbroken(r[1], r[2])
        /\ \A m \in NoAfterNoun : m < r[1] => ~Unbroken(m, r[1])
        /\ \A m \in NoAfterNoun : m > r[2] => ~Unbroken(r[2], m)}

\* the runs of three or more no
LongNoRuns ==
    {r \in NoRuns : Cardinality({m \in NoAfterNoun : r[1] <= m /\ m <= r[2]}) >= 3}

\* C14: the consecutive-no diagnostics are exactly one per maximal run of
\* three or more no, from the start of its first no to the end of its last;
\* a run of fewer than three gets none
C14_ConsecutiveNoExactly ==
    called =>
        Reports("consecutive-no") =
            [k \in 1..Cardinality(LongNoRuns) |->
                LET a == Ascending({r[1] : r \in LongNoRuns})[k]
                    b == CHOOSE e \in NoAfterNoun : <<a, e>> \in LongNoRuns
                IN  [range |-> TokenSpan(a, b), severity |-> "HINT"]]

\* a run of three no ended by a particle, next to no shorter run reported
C14_Witness ==
    /\ called
    /\ \E r \in LongNoRuns : r[2] < Len(tokens)
    /\ Len(Reports("consecutive-no")) = 1

\* the windows koto, ga, X with X one of the three forms, by their first token
RedundantWindows ==
    {i \in 1..(Len(tokens) - 2) :
        /\ tokens[i].surface = <<"ko", "to">>
        /\ tokens[i + 1].surface = <<"ga">>
        /\ \/ tokens[i + 2].surface = <<"de", "ki">>
           \/ tokens[i + 2].base_form = <<"de", "ki", "ru">>
           \/ tokens[i + 2].surface = <<"ka", "nou">>}

\* C15: a window koto, ga, X is reported only when a token follows X (and then
\* it is reported, once), never when X is the last token; the range of a
\* report covers the three tokens of the window
C15_RedundantNeedsLookahead ==
    called =>
        Reports("redundant-expression") =
            [k \in 1..Cardinality({i \in RedundantWindows : i + 3 <= Len(tokens)}) |->
                LET i == Ascending({w \in RedundantWindows : w + 3 <= Len(tokens)})[k]
                IN  [range |-> TokenSpan(i, i + 2), severity |-> "HINT"]]

\* a window with a token behind it, reported over its three tokens
C15_Witness ==
    /\ called
    /\ \E i \in RedundantWindows :
          /\ i + 3 <= Len(tokens)
          /\ tokens[i + 2].surface = <<"de", "ki", "ru">>
          /\ Reports("redundant-expression") =
                 <<[range |-> [start |-> [line |-> 0, character |-> 0],
                               end |-> [line |-> 0, character |-> 6]],
                    severity |-> "HINT"]>>

\* a window whose X is the last token: nothing is reported
C15_WitnessLast ==
    /\ called
    /\ \E i \in RedundantWindows : i + 2 = Len(tokens)
    /\ Reports("redundant-expression") = <<>>

\* (a) the pairs of an honorific verb and the verb re or rare
HonorificPairs ==
    {i \in 1..(Len(tokens) - 1) :
        /\ tokens[i].pos = <<"dou", "shi">>
        /\ \E stem \in {<<"o", "ssha">>, <<"i", "ra", "ssha">>, <<"na", "sa">>,
                        <<"ku", "da", "sa">>, <<"meshi", "a", "ga">>} :
              StartsWith(tokens[i].surface, stem)
        /\ tokens[i + 1].surface \in {<<"re">>, <<"ra", "re">>}
        /\ tokens[i + 1].pos = <<"dou", "shi">>}

\* (b) the windows go.., ni, nara or nari, re or rare
HonorificWindows ==
    {i \in 1..(Len(tokens) - 3) :
        /\ StartsWith(tokens[i].surface, <<"go">>)
        /\ tokens[i + 1].surface = <<"ni">>
        /\ tokens[i + 2].surface \in {<<"na", "ra">>, <<"na", "ri">>}
        /\ tokens[i + 3].surface \in {<<"re">>, <<"ra", "re">>}}

\* C16: the double-honorific diagnostics are one Warning per pair (a) and one
\* per window (b), and no other
C16_DoubleHonorificExactly ==
    called =>
        SameUpToOrder(
            Reports("double-honorific"),
            [k \in 1..Cardinality(HonorificPairs) |->
                [range |-> TokenSpan(Ascending(HonorificPairs)[k],
                                     Ascending(HonorificPairs)[k] + 1),
                 severity |-> "WARNING"]]
            \o [k \in 1..Cardinality(HonorificWindows) |->
                [range |-> TokenSpan(Ascending(HonorificWindows)[k],
                                     Ascending(HonorificWindows)[k] + 3),
                 severity |-> "WARNING"]])

\* a text of three tokens that starts with a stem and the verb re or rare
C16_Witness ==
    /\ called
    /\ HonorificPairs = {1}
    /\ Len(tokens) = 3
    /\ Len(Reports("double-honorific")) = 1

\* a window whose last token is written re without being a verb
C16_WitnessWindow ==
    /\ called
    /\ HonorificWindows = {1}
    /\ tokens[4].pos # <<"dou", "shi">>
    /\ Len(Reports("double-honorific")) = 1

\* the tokens of ra-nuki pattern (a)
RaNukiSingles ==
    {i \in 1..Len(tokens) :
        /\ tokens[i].pos = <<"dou", "shi">>
        /\ Contains(tokens[i].conjugation_type, <<"ichi", "dan">>)
        /\ EndsWith(tokens[i].surface, <<"re", "ru">>)
        /\ EndsWith(tokens[i].base_form, <<"re", "ru">>)
        /\ ~EndsWith(tokens[i].base_form, <<"ra", "re", "ru">>)}

\* a surface in reru with that last reru turned into rareru
TrailingReplaced(surface) ==
    SubSeq(surface, 1, Len(surface) - 2) \o <<"ra", "re", "ru">>

\* C17: the ra-nuki diagnostic of a pattern (a) token shows the surface with
\* its trailing reru replaced by rareru, also when reru occurs earlier in it
C17_RaNukiTrailingReplaced ==
    called =>
        \A i \in RaNukiSingles :
            LET shown == {n \in 1..Len(diagnostics) :
                             /\ diagnostics[n].code = "ra-nuki"
                             /\ diagnostics[n].range = TokenSpan(i, i)
                             /\ diagnostics[n].message.args[1] = tokens[i].surface}
            IN  /\ shown # {}
                /\ \A n \in shown :
                      diagnostics[n].message.args[2]
                          = TrailingReplaced(tokens[i].surface)

(***************************************************************************)
(* Properties of the analyzer's queries                                    *)
(***************************************************************************)
RECURSIVE LineStart(_, _)
\* the code points of the first n lines, one more counted for each of them
LineStart(lines, n) ==
    IF n = 0 THEN 0 ELSE Len(lines[n]) + 1 + LineStart(lines, n - 1)

\* the tokens whose [char_offset, char_offset + char_length) holds offset
Holders(offset) ==
    {i \in 1..Len(tokens) :
        /\ tokens[i].char_offset <= offset
        /\ offset < tokens[i].char_offset + tokens[i].char_length}

\* C18: with the position turned into the offset (lengths of the lines before
\* it, one more for each, plus the column), at most one token holds the
\* offset and the hover is the rendering of that token; the result is None
\* when no token holds it or the line is not one of the lines of the text
C18_HoverOfPosition ==
    called =>
        IF position.line >= Len(Lines(text))
        THEN hover = None
        ELSE LET offset == LineStart(Lines(text), position.line) + position.character
             IN  /\ Cardinality(Holders(offset)) <= 1
                 /\ hover = IF Holders(offset) = {} THEN None
                            ELSE Some(format_token_info(
                                     tokens[CHOOSE i \in Holders(offset) : TRUE]))

\* a position on the second line, inside a token of several code points that
\* is not the first token
C18_Witness ==
    /\ called
    /\ position.line = 1
    /\ position.character >= 1
    /\ hover # None
    /\ \E i \in 2..Len(tokens) :
          /\ tokens[i].char_length >= 2
          /\ tokens[i].char_offset < LineStart(Lines(text), 1) + position.character
          /\ hover = Some(format_token_info(tokens[i]))

\* the sum of two numbers written in halves, the high half left to grow
Sum(m, n) ==
    <<m[1] + n[1] + ((m[2] + n[2]) \div 65536), (m[2] + n[2]) % 65536>>

RECURSIVE Decoded(_, _)
\* the (line, column) of entry k of a delta stream, each written in halves:
\* the line accumulates delta_line, the column accumulates delta_start on the
\* same line and is delta_start on a new line
Decoded(stream, k) ==
    IF k = 0 THEN <<<<0, 0>>, <<0, 0>>>>
    ELSE LET prev == Decoded(stream, k - 1)
         IN  <<Sum(prev[1], stream[k].delta_line),
               IF stream[k].delta_line = <<0, 0>>
               THEN Sum(prev[2], stream[k].delta_start)
               ELSE stream[k].delta_start>>

\* C19: get_semantic_tokens gives one entry per token, in order, with the
\* token's char_length and no modifiers, and the decoded delta stream gives
\* every token the position the coordinate mapper gives its char_offset
C19_SemanticTokensDecode ==
    called =>
        /\ ~semantic_tokens.panicked
        /\ Len(semantic_tokens.tokens) = Len(tokens)
        /\ \A k \in 1..Len(semantic_tokens.tokens) :
              /\ semantic_tokens.tokens[k].length = tokens[k].char_length
              /\ semantic_tokens.tokens[k].token_modifiers_bitset = 0
              /\ Decoded(semantic_tokens.tokens, k)
                     = <<<<0, char_offset_to_position(
                                  Lines(text), tokens[k].char_offset)[1]>>,
                         <<0, char_offset_to_position(
                                  Lines(text), tokens[k].char_offset)[2]>>>>

(***************************************************************************)
(* Properties of the plain-text extractor                                  *)
(***************************************************************************)
\* C20: plain-text extraction of a content that is not empty gives one span:
\* the whole content, bytes 0 to its byte length, from (0, 0) to the last
\* line and the number of code points of the last line; the empty content
\* gives no span
C20_PlainTextSpan ==
    md_result = "ok" =>
        md_spans =
            IF md_content = <<>> THEN <<>>
            ELSE <<[text |-> md_content,
                    start_byte |-> 0,
                    end_byte |-> ByteCount(md_content),
                    start_line |-> 0,
                    start_col |-> 0,
                    end_line |-> Len(Lines(md_content)) - 1,
                    end_col |-> Len(Lines(md_content)[Len(Lines(md_content))])]>>

(***************************************************************************)
(* C21  File-type detection is a total, case-insensitive function of the   *)
(* extension with the table md/markdown -> Markdown, rs -> Rust, py/pyi -> *)
(* Python, ts/tsx -> TypeScript, js/jsx/mjs/cjs -> JavaScript, c/h -> C,   *)
(* cpp/cc/cxx/hpp/hxx -> Cpp, go -> Go, tex/latex -> LaTeX, anything else  *)
(* -> PlainText; detect_file_type applies it to the text after the last    *)
(* '.' of the path, and a path with no '.' in its final segment is         *)
(* PlainText.                                                              *)
(***************************************************************************)
\* the two strings are the same but for the case of their letters
SameIgnoringCase(a, b) ==
    /\ Len(a) = Len(b)
    /\ \A i \in 1..Len(a) :
        \/ a[i] = b[i]
        \/ \E k \in 1..Len(LowerCase) :
            {a[i], b[i]} = {LowerCase[k], UpperCase[k]}

Is(ext, words) == \E w \in words : SameIgnoringCase(ext, w)

\* the table of the claim
TableType(ext) ==
    CASE Is(ext, {<<"m", "d">>, <<"m", "a", "r", "k", "d", "o", "w", "n">>}) -> "Markdown"
      [] Is(ext, {<<"r", "s">>}) -> "Rust"
      [] Is(ext, {<<"p", "y">>, <<"p", "y", "i">>}) -> "Python"
      [] Is(ext, {<<"t", "s">>, <<"t", "s", "x">>}) -> "TypeScript"
      [] Is(ext, {<<"j", "s">>, <<"j", "s", "x">>, <<"m", "j", "s">>,
                  <<"c", "j", "s">>}) -> "JavaScript"
      [] Is(ext, {<<"c">>, <<"h">>}) -> "C"
      [] Is(ext, {<<"c", "p", "p">>, <<"c", "c">>, <<"c", "x", "x">>,
                  <<"h", "p", "p">>, <<"h", "x", "x">>}) -> "Cpp"
      [] Is(ext, {<<"g", "o">>}) -> "Go"
      [] Is(ext, {<<"t", "e", "x">>, <<"l", "a", "t", "e", "x">>}) -> "LaTeX"
      [] OTHER -> "PlainText"

\* the text after the last '/' of a path
FinalSegment(path) ==
    LET slashes == {i \in 1..Len(path) : path[i] = "/"}
    IN  IF slashes = {} THEN path
        ELSE SubSeq(path, (CHOOSE i \in slashes : \A j \in slashes : j <= i) + 1,
                    Len(path))

HasDot(s) == \E i \in 1..Len(s) : s[i] = "."

\* the text after the last '.' of a path that has one
AfterLastDot(path) ==
    LET i == CHOOSE i \in 1..Len(path) :
                 path[i] = "." /\ \A j \in (i + 1)..Len(path) : path[j] # "."
    IN  SubSeq(path, i + 1, Len(path))

C21_ExtensionTable ==
    type_call = "from_extension" => type_result = TableType(type_input)

C21_PathTable ==
    (type_call = "detect_file_type" /\ HasDot(type_input))
        => type_result = TableType(AfterLastDot(type_input))

C21_FileTypeDetection ==
    /\ C21_ExtensionTable
    /\ C21_PathTable
    /\ (type_call = "detect_file_type" /\ ~HasDot(FinalSegment(type_input)))
        => type_result = "PlainText"

\* C22: in Rust extraction a span is emitted for a line_comment or
\* block_comment node exactly when the comment has non-whitespace content
\* between its markers, and the span's text is that content trimmed: the node
\* text without one leading marker (three slashes, two slashes and a bang, two
\* slashes, slash star star, slash star bang or slash star) and, for a block
\* comment, without the trailing star slash.  An empty block comment, slash
\* star star slash, yields no span.
LineMarkers == {Slashes(3), <<"/", "/", "!">>, Slashes(2)}
BlockMarkers == {<<"/", "*", "*">>, <<"/", "*", "!">>, <<"/", "*">>}

\* the leading marker of a comment: the longest one it starts with that
\* leaves room for the trailer
MarkerOf(comment, markers, trailer) ==
    LET fitting == {m \in markers : /\ StartsWith(comment, m)
                                    /\ Len(comment) >= Len(m) + trailer}
    IN  CHOOSE m \in fitting : \A o \in fitting : Len(o) <= Len(m)

\* the content of a comment between its markers, trimmed
ContentOf(comment, kind) ==
    IF kind = "line_comment"
    THEN Trim(SubSeq(comment, Len(MarkerOf(comment, LineMarkers, 0)) + 1,
                     Len(comment)))
    ELSE Trim(SubSeq(comment, Len(MarkerOf(comment, BlockMarkers, 2)) + 1,
                     Len(comment) - 2))

CommentNodes == {n \in NodesOf(md_tree) : n.kind \in rust_comment_types}

SpansOf(n) ==
    {i \in 1..Len(md_spans) :
        /\ md_spans[i].start_byte = ByteOffset(md_content, n.from)
        /\ md_spans[i].end_byte = ByteOffset(md_content, n.to)}

C22_RustCommentSpans ==
    md_result # "idle" =>
        /\ md_result = "ok"
        /\ \A n \in CommentNodes :
            LET content == ContentOf(NodeText(n, md_content), n.kind)
            IN  IF content = <<>> THEN SpansOf(n) = {}
                ELSE /\ Cardinality(SpansOf(n)) = 1
                     /\ \A i \in SpansOf(n) : md_spans[i].text = content
        /\ \A i \in 1..Len(md_spans) : \E n \in CommentNodes : i \in SpansOf(n)

\* C23: in Python extraction a string node is emitted as a span only if its
\* text begins with triple quotes; its span text is then the node text with the
\* first three and the last three characters removed, trimmed; stripping never
\* fails, whatever the text of the string node; and a string node that does not
\* begin with triple quotes produces no span.
StringNodes == {n \in NodesOf(md_tree) : n.kind = "string"}

TripleQuoted(s) == StartsWith(s, Quotes) \/ StartsWith(s, Apostrophes)

C23_PythonStringSpans ==
    md_result # "idle" =>
        /\ md_result = "ok"
        /\ \A n \in StringNodes :
            LET node_text == NodeText(n, md_content)
            IN  /\ ~TripleQuoted(node_text) => SpansOf(n) = {}
                /\ \A i \in SpansOf(n) :
                    /\ TripleQuoted(node_text)
                    /\ md_spans[i].text
                         = Trim(SubSeq(node_text, 4, Len(node_text) - 3))

\* C25: for every text, also one with CR LF line ends or a trailing newline,
\* every diagnostic of check has a well-formed range: its start is not after
\* its end, and no endpoint is the (0, 0) the coordinate mapper returns for an
\* offset it cannot place, unless the offset is at line 0, column 0.  The end
\* of a range is the mapping of a token's char_offset + char_length, which is
\* at least 1, or lies two columns after the start, so an end at (0, 0) is
\* always the default.
Origin == [line |-> 0, character |-> 0]

C25_WellFormedRanges ==
    \A i \in 1..Len(diagnostics) :
        /\ ~PosLess(diagnostics[i].range.end, diagnostics[i].range.start)
        /\ diagnostics[i].range.end # Origin

\* C26: in get_semantic_tokens, for every text, also one with CR LF line ends,
\* the line computed for a token is not below the line computed for the token
\* before it (line 0 before the first), and on the same line its column is
\* not below the previous column, so line - prev_line and col - prev_char
\* never go below zero.
TokenPosition(k) ==
    IF k = 0 THEN <<0, 0>>
    ELSE char_offset_to_position(Lines(text), tokens[k].char_offset)

C26_NoUnderflow ==
    called =>
        /\ ~semantic_tokens.panicked
        /\ \A k \in 1..Len(tokens) :
            /\ TokenPosition(k)[1] >= TokenPosition(k - 1)[1]
            /\ TokenPosition(k)[1] = TokenPosition(k - 1)[1]
                  => TokenPosition(k)[2] >= TokenPosition(k - 1)[2]

\* C27: get_hover_info returns the rendering of a token only if the position
\* lies on that token; for a position whose column is greater than the number
\* of code points of its line the result is None, not a token of a later line.
OnToken(i) ==
    LET start == TruePosition(text, tokens[i].char_offset)
    IN  /\ start[1] = position.line
        /\ start[2] <= position.character
        /\ position.character < start[2] + tokens[i].char_length

C27_HoverOnlyOnToken ==
    called =>
        /\ hover # None =>
              \E i \in 1..Len(tokens) :
                  hover = Some(format_token_info(tokens[i])) /\ OnToken(i)
        /\ (/\ position.line < Len(Lines(text))
            /\ position.character > Len(Lines(text)[position.line + 1]))
              => hover = None

\* C28: no two spans emitted by Markdown extraction have overlapping byte
\* ranges: a node of an emitting kind nested in another emitting node does not
\* make the same prose a span twice.
BytesOverlap(a, b) == a.start_byte < b.end_byte /\ b.start_byte < a.end_byte

C28_NoOverlappingSpans ==
    md_result = "ok" =>
        \A i, j \in 1..Len(md_spans) :
            i # j => ~BytesOverlap(md_spans[i], md_spans[j])

(***************************************************************************)
(* Properties of the server's document map                                 *)
(***************************************************************************)
\* C29: under any interleaving of the handlers, every publish_diagnostics call
\* of analyze_document carries the version of the state stored for the uri at
\* the moment of the call and diagnostics computed from the content of that
\* same state: nothing is written to the document map between the read and
\* the publication.
C29_PublishFromStoredState ==
    [][\A t \in tasks :
          Publish(t) =>
              LET doc == documents[t.uri]
              IN  /\ doc # NoDocument
                  /\ published'[1].uri = t.uri
                  /\ published'[1].version = doc.version
                  /\ \E parsed \in BOOLEAN :
                        published'[1].diagnostics
                            = Analyses[doc.file_type][doc.content][parsed].diagnostics
                  /\ documents' = documents]_vars

\* an analysis has read the stored state and holds the guard while a handler
\* that carries another text and another version waits to write
C29_Witness ==
    \E t, w \in tasks :
        /\ t.pc = "publish"
        /\ w.pc = "write"
        /\ w.uri = t.uri
        /\ w.content # documents[t.uri].content
        /\ w.version # documents[t.uri].version

\* C30: the document map holds state for a uri only if a did_open for it has
\* been handled with no later did_close: only the insert of a did_open gives
\* state to a uri that had none (a did_change for a uri with no stored state
\* creates none), did_close removes the state, and did_save and a did_change
\* with no changes leave the map as it is.
C30_DocumentMapLifecycle ==
    [][/\ \A uri \in Uris :
            (documents[uri] = NoDocument /\ documents'[uri] # NoDocument)
                => \E t \in tasks : t.op = "did_open" /\ t.uri = uri /\ Insert(t)
       /\ \A t \in tasks : Remove(t) => documents'[t.uri] = NoDocument
       /\ \A t \in tasks :
            (t.op = "did_save" /\ (Analyze(t) \/ Publish(t)))
                => documents' = documents
       /\ (received' # received /\ tasks' = tasks) => documents' = documents]_vars

====
